---------------------------- MODULE Spec2Model ----------------------------
(***************************************************************************)
(* Model of the smart-doc-parser tool (src/tools/smart-doc-parser.py):     *)
(* one request handled by SmartDocParserTool._invoke, from parameter       *)
(* validation through download, type detection, dispatch, the extraction   *)
(* pipelines and the emission of the output messages.                      *)
(*                                                                         *)
(* Python str values are TLA+ strings (TLC treats a string as the sequence *)
(* of its characters: Len, SubSeq and \o apply); bytes values are          *)
(* sequences of integers 0..255.  Other Python values are tagged records   *)
(* (see PyNone .. PyDict).                                                 *)
(***************************************************************************)
EXTENDS Integers, Sequences, FiniteSets, TLC

(***************************************************************************)
(* Python str helpers                                                      *)
(***************************************************************************)
Ch(s, i) == SubSeq(s, i, i)

StartsWith(s, p) == Len(s) >= Len(p) /\ SubSeq(s, 1, Len(p)) = p

EndsWith(s, p) == Len(s) >= Len(p) /\ SubSeq(s, Len(s) - Len(p) + 1, Len(s)) = p

\* `p in s` for str and for bytes
Contains(s, p) ==
    \E i \in 1..(Len(s) - Len(p) + 1) : SubSeq(s, i, i + Len(p) - 1) = p

\* position of the first character of s at or after i that is in set, Len(s)+1 if none
FindFirst(s, i, set) ==
    IF \E j \in i..Len(s) : Ch(s, j) \in set
    THEN CHOOSE j \in i..Len(s) :
             /\ Ch(s, j) \in set
             /\ \A l \in i..(j - 1) : Ch(s, l) \notin set
    ELSE Len(s) + 1

Whitespace == {" ", "\t", "\n", "\r"}

\* str.strip()
Strip(s) ==
    IF \A i \in 1..Len(s) : Ch(s, i) \in Whitespace
    THEN ""
    ELSE LET a == CHOOSE i \in 1..Len(s) :
                      /\ Ch(s, i) \notin Whitespace
                      /\ \A j \in 1..(i - 1) : Ch(s, j) \in Whitespace
             b == CHOOSE i \in 1..Len(s) :
                      /\ Ch(s, i) \notin Whitespace
                      /\ \A j \in (i + 1)..Len(s) : Ch(s, j) \in Whitespace
         IN  SubSeq(s, a, b)

UpperCase == "ABCDEFGHIJKLMNOPQRSTUVWXYZ"
LowerCase == "abcdefghijklmnopqrstuvwxyz"

LowerCh(c) ==
    IF \E i \in 1..Len(UpperCase) : Ch(UpperCase, i) = c
    THEN Ch(LowerCase, CHOOSE i \in 1..Len(UpperCase) : Ch(UpperCase, i) = c)
    ELSE c

RECURSIVE Lower(_)
\* str.lower()
Lower(s) == IF s = "" THEN "" ELSE LowerCh(Head(s)) \o Lower(Tail(s))

Digits == "0123456789"

RECURSIVE IntToStr(_)
\* decimal rendering of an int (str(n), and the way json.dumps writes an int)
IntToStr(n) ==
    IF n < 0 THEN "-" \o IntToStr(0 - n)
    ELSE IF n < Len(Digits) THEN Ch(Digits, n + 1)
    ELSE IntToStr(n \div Len(Digits)) \o Ch(Digits, (n % Len(Digits)) + 1)

DigitVal(c) == (CHOOSE i \in 1..Len(Digits) : Ch(Digits, i) = c) - 1

(***************************************************************************)
(* Python values                                                           *)
(***************************************************************************)
PyNone == [k |-> "none"]
PyBool(b) == [k |-> "bool", b |-> b]
PyInt(n) == [k |-> "int", n |-> n]
PyStr(s) == [k |-> "str", s |-> s]
PyList(v) == [k |-> "list", v |-> v]
PyTuple(v) == [k |-> "tuple", v |-> v]
\* a dict is the sequence of its items in insertion order
PyDict(items) == [k |-> "dict", items |-> items]
Item(key, val) == [key |-> key, val |-> val]

IsStr(v) == v.k = "str"
IsDict(v) == v.k = "dict"
IsList(v) == v.k = "list"
IsTuple(v) == v.k = "tuple"

\* `key in d`
HasKey(d, key) == \E i \in 1..Len(d.items) : d.items[i].key = key

\* d.get(key): None when the key is absent
Get(d, key) ==
    IF HasKey(d, key)
    THEN d.items[CHOOSE i \in 1..Len(d.items) : d.items[i].key = key].val
    ELSE PyNone

\* d[key] = val
DictSet(d, key, val) ==
    IF HasKey(d, key)
    THEN PyDict([i \in 1..Len(d.items) |->
                    IF d.items[i].key = key THEN Item(key, val) ELSE d.items[i]])
    ELSE PyDict(Append(d.items, Item(key, val)))

\* truthiness of a value (`x or y`, `if x`, `not x`)
Truthy(v) ==
    CASE v.k = "none" -> FALSE
      [] v.k = "bool" -> v.b
      [] v.k = "int" -> v.n # 0
      [] v.k = "str" -> v.s # ""
      [] v.k = "list" -> v.v # <<>>
      [] v.k = "tuple" -> v.v # <<>>
      [] v.k = "dict" -> v.items # <<>>

(***************************************************************************)
(* json.dumps / json.loads                                                 *)
(***************************************************************************)
RECURSIVE EscapeJson(_)
\* the body of a JSON string literal for a str (ensure_ascii=False)
EscapeJson(s) ==
    IF s = "" THEN ""
    ELSE LET c == Head(s)
             e == CASE c = "\"" -> "\\\""
                    [] c = "\\" -> "\\\\"
                    [] c = "\n" -> "\\n"
                    [] c = "\r" -> "\\r"
                    [] c = "\t" -> "\\t"
                    [] OTHER -> c
         IN  e \o EscapeJson(Tail(s))

RECURSIVE Dumps(_), DumpsSeq(_, _), DumpsItems(_, _)
\* json.dumps(v, ensure_ascii=False) with the default separators
Dumps(v) ==
    CASE v.k = "none" -> "null"
      [] v.k = "bool" -> IF v.b THEN "true" ELSE "false"
      [] v.k = "int" -> IntToStr(v.n)
      [] v.k = "str" -> "\"" \o EscapeJson(v.s) \o "\""
      [] v.k \in {"list", "tuple"} -> "[" \o DumpsSeq(v.v, 1) \o "]"
      [] v.k = "dict" -> "{" \o DumpsItems(v.items, 1) \o "}"

DumpsSeq(vs, i) ==
    IF i > Len(vs) THEN ""
    ELSE Dumps(vs[i]) \o (IF i < Len(vs) THEN ", " ELSE "") \o DumpsSeq(vs, i + 1)

DumpsItems(items, i) ==
    IF i > Len(items) THEN ""
    ELSE "\"" \o EscapeJson(items[i].key) \o "\": " \o Dumps(items[i].val)
         \o (IF i < Len(items) THEN ", " ELSE "") \o DumpsItems(items, i + 1)

\* repr-style rendering used when json.dumps raises: not JSON (single quotes)
RECURSIVE Repr(_), ReprSeq(_, _), ReprItems(_, _)
Repr(v) ==
    CASE v.k = "none" -> "None"
      [] v.k = "bool" -> IF v.b THEN "True" ELSE "False"
      [] v.k = "int" -> IntToStr(v.n)
      [] v.k = "str" -> "'" \o v.s \o "'"
      [] v.k = "list" -> "[" \o ReprSeq(v.v, 1) \o "]"
      [] v.k = "tuple" -> "(" \o ReprSeq(v.v, 1) \o ")"
      [] v.k = "dict" -> "{" \o ReprItems(v.items, 1) \o "}"

ReprSeq(vs, i) ==
    IF i > Len(vs) THEN ""
    ELSE Repr(vs[i]) \o (IF i < Len(vs) THEN ", " ELSE "") \o ReprSeq(vs, i + 1)

ReprItems(items, i) ==
    IF i > Len(items) THEN ""
    ELSE "'" \o items[i].key \o "': " \o Repr(items[i].val)
         \o (IF i < Len(items) THEN ", " ELSE "") \o ReprItems(items, i + 1)

\* a parse step: ok, the value read, and the position after it
Parsed(val, pos) == [ok |-> TRUE, val |-> val, pos |-> pos]
ParseError == [ok |-> FALSE, val |-> PyNone, pos |-> 0]

RECURSIVE SkipWs(_, _)
SkipWs(s, i) == IF i <= Len(s) /\ Ch(s, i) \in Whitespace THEN SkipWs(s, i + 1) ELSE i

RECURSIVE ParseString(_, _, _)
\* s[i-1] was the opening quote; acc is the text decoded so far
ParseString(s, i, acc) ==
    IF i > Len(s) THEN ParseError
    ELSE LET c == Ch(s, i) IN
         CASE c = "\"" -> Parsed(PyStr(acc), i + 1)
           [] c = "\\" ->
                IF i + 1 > Len(s) THEN ParseError
                ELSE LET d == Ch(s, i + 1) IN
                     CASE d = "\"" -> ParseString(s, i + 2, acc \o "\"")
                       [] d = "\\" -> ParseString(s, i + 2, acc \o "\\")
                       [] d = "/" -> ParseString(s, i + 2, acc \o "/")
                       [] d = "n" -> ParseString(s, i + 2, acc \o "\n")
                       [] d = "r" -> ParseString(s, i + 2, acc \o "\r")
                       [] d = "t" -> ParseString(s, i + 2, acc \o "\t")
                       [] OTHER -> ParseError
           [] c \in {"\n", "\r", "\t"} -> ParseError
           [] OTHER -> ParseString(s, i + 1, acc \o c)

RECURSIVE ParseDigits(_, _, _)
ParseDigits(s, i, n) ==
    IF i <= Len(s) /\ Contains(Digits, Ch(s, i))
    THEN ParseDigits(s, i + 1, n * Len(Digits) + DigitVal(Ch(s, i)))
    ELSE Parsed(PyInt(n), i)

\* an integer literal: -?(0|[1-9][0-9]*)
ParseNumber(s, i) ==
    LET neg == Ch(s, i) = "-"
        j == IF neg THEN i + 1 ELSE i
    IN  IF j > Len(s) \/ ~Contains(Digits, Ch(s, j)) THEN ParseError
        ELSE LET r == IF Ch(s, j) = "0"
                      THEN Parsed(PyInt(0), j + 1)
                      ELSE ParseDigits(s, j, 0)
             IN  IF neg THEN Parsed(PyInt(0 - r.val.n), r.pos) ELSE r

RECURSIVE ParseValue(_, _), ParseArray(_, _, _), ParseObject(_, _, _)
ParseValue(s, i0) ==
    LET i == SkipWs(s, i0) IN
    IF i > Len(s) THEN ParseError
    ELSE LET c == Ch(s, i) IN
         CASE c = "{" ->
                LET j == SkipWs(s, i + 1) IN
                IF j <= Len(s) /\ Ch(s, j) = "}"
                THEN Parsed(PyDict(<<>>), j + 1)
                ELSE ParseObject(s, j, PyDict(<<>>))
           [] c = "[" ->
                LET j == SkipWs(s, i + 1) IN
                IF j <= Len(s) /\ Ch(s, j) = "]"
                THEN Parsed(PyList(<<>>), j + 1)
                ELSE ParseArray(s, j, <<>>)
           [] c = "\"" -> ParseString(s, i + 1, "")
           [] c = "-" \/ Contains(Digits, c) -> ParseNumber(s, i)
           [] StartsWith(SubSeq(s, i, Len(s)), "true") -> Parsed(PyBool(TRUE), i + 4)
           [] StartsWith(SubSeq(s, i, Len(s)), "false") -> Parsed(PyBool(FALSE), i + 5)
           [] StartsWith(SubSeq(s, i, Len(s)), "null") -> Parsed(PyNone, i + 4)
           [] OTHER -> ParseError

\* the elements of an array from position i, after "[" or ","
ParseArray(s, i, acc) ==
    LET r == ParseValue(s, i) IN
    IF ~r.ok THEN ParseError
    ELSE LET j == SkipWs(s, r.pos) IN
         IF j > Len(s) THEN ParseError
         ELSE IF Ch(s, j) = "]" THEN Parsed(PyList(Append(acc, r.val)), j + 1)
         ELSE IF Ch(s, j) = "," THEN ParseArray(s, j + 1, Append(acc, r.val))
         ELSE ParseError

\* the members of an object from position i, after "{" or ","; a repeated
\* key keeps its last value
ParseObject(s, i0, acc) ==
    LET i == SkipWs(s, i0) IN
    IF i > Len(s) \/ Ch(s, i) # "\"" THEN ParseError
    ELSE LET key == ParseString(s, i + 1, "") IN
         IF ~key.ok THEN ParseError
         ELSE LET c == SkipWs(s, key.pos) IN
              IF c > Len(s) \/ Ch(s, c) # ":" THEN ParseError
              ELSE LET r == ParseValue(s, c + 1) IN
                   IF ~r.ok THEN ParseError
                   ELSE LET j == SkipWs(s, r.pos)
                            d == DictSet(acc, key.val.s, r.val)
                        IN  IF j > Len(s) THEN ParseError
                            ELSE IF Ch(s, j) = "}" THEN Parsed(d, j + 1)
                            ELSE IF Ch(s, j) = "," THEN ParseObject(s, j + 1, d)
                            ELSE ParseError

\* json.loads(s): ok is FALSE where json.loads raises
Loads(s) ==
    LET r == ParseValue(s, 1) IN
    IF r.ok /\ SkipWs(s, r.pos) = Len(s) + 1 THEN r ELSE ParseError

(***************************************************************************)
(* URL handling (src/tools/smart-doc-parser.py, 603-693)                   *)
(***************************************************************************)
\* str(v) for the values a parameter can hold
StrOf(v) ==
    CASE v.k = "str" -> v.s
      [] v.k = "int" -> IntToStr(v.n)
      [] OTHER -> Repr(v)

IsHttp(url) == StartsWith(url, "http://") \/ StartsWith(url, "https://")

UrlFields == <<"url", "file_url", "image_url", "src", "href", "value">>

RECURSIVE _extract_file_url(_), ExtractFromDict(_, _), ExtractFromList(_, _)
_extract_file_url(value) ==
    CASE IsStr(value) ->
           LET text == Strip(value.s) IN
           IF text = "" THEN ""
           ELSE IF \/ StartsWith(text, "{") /\ EndsWith(text, "}")
                   \/ StartsWith(text, "[") /\ EndsWith(text, "]")
                THEN LET decoded == Loads(text) IN
                     IF decoded.ok THEN _extract_file_url(decoded.val) ELSE text
                ELSE text
      [] IsDict(value) -> ExtractFromDict(value, 1)
      [] IsList(value) \/ IsTuple(value) -> ExtractFromList(value.v, 1)
      [] OTHER -> ""

\* the loop over the url fields of a dict, from field i
ExtractFromDict(d, i) ==
    IF i > Len(UrlFields) THEN ""
    ELSE LET candidate == Get(d, UrlFields[i]) IN
         IF IsStr(candidate) /\ Strip(candidate.s) # ""
         THEN Strip(candidate.s)
         ELSE IF (IsDict(candidate) \/ IsList(candidate))
                 /\ _extract_file_url(candidate) # ""
              THEN _extract_file_url(candidate)
              ELSE ExtractFromDict(d, i + 1)

\* the loop over the items of a list, from item i
ExtractFromList(vs, i) ==
    IF i > Len(vs) THEN ""
    ELSE IF _extract_file_url(vs[i]) # "" THEN _extract_file_url(vs[i])
    ELSE ExtractFromList(vs, i + 1)

RECURSIVE RStripSlash(_)
\* while v.endswith("/"): v = v[:-1]
RStripSlash(v) == IF EndsWith(v, "/") THEN RStripSlash(SubSeq(v, 1, Len(v) - 1)) ELSE v

\* environ: a dict of the environment variables that are set
_get_auto_base_url(environ) ==
    LET files == Get(environ, "FILES_URL")
        internal == Get(environ, "INTERNAL_FILES_URL")
        remote == IF HasKey(environ, "REMOTE_INSTALL_URL")
                  THEN Get(environ, "REMOTE_INSTALL_URL").s ELSE ""
    IN  IF Truthy(files) /\ IsHttp(files.s) THEN RStripSlash(files.s)
        ELSE IF Truthy(internal) /\ IsHttp(internal.s) THEN RStripSlash(internal.s)
        ELSE IF remote # "" /\ (Contains(remote, "localhost") \/ Contains(remote, "127.0.0.1"))
        THEN "http://localhost"
        ELSE ""

\* a variant that prefers the file host base to the explicit base
AbsolutizeHostBaseFirst(url, base_override, file_host_base) ==
    IF url = "" THEN url
    ELSE IF IsHttp(url) THEN url
    ELSE LET unquoted == IF \/ StartsWith(url, "\"") /\ EndsWith(url, "\"")
                            \/ StartsWith(url, "'") /\ EndsWith(url, "'")
                         THEN SubSeq(url, 2, Len(url) - 1)
                         ELSE url
             rooted == IF StartsWith(unquoted, "/") THEN unquoted ELSE "/" \o unquoted
             host == Strip(IF Truthy(file_host_base) THEN StrOf(file_host_base) ELSE "")
             base == IF host # "" THEN host ELSE base_override
         IN  IF base # "" THEN RStripSlash(base) \o rooted ELSE rooted

\* file_host_base: the provider credential of that name (None when not stored)
_absolutize_url(url, base_override, file_host_base) ==
    IF url = "" THEN url
    ELSE IF IsHttp(url) THEN url
    ELSE LET unquoted == IF \/ StartsWith(url, "\"") /\ EndsWith(url, "\"")
                            \/ StartsWith(url, "'") /\ EndsWith(url, "'")
                         THEN SubSeq(url, 2, Len(url) - 1)
                         ELSE url
             rooted == IF StartsWith(unquoted, "/") THEN unquoted ELSE "/" \o unquoted
             base == IF base_override # "" THEN base_override
                     ELSE Strip(IF Truthy(file_host_base) THEN StrOf(file_host_base) ELSE "")
         IN  IF base # "" THEN RStripSlash(base) \o rooted ELSE rooted

\* urlparse(url).path for a URL with an http(s) scheme or with no scheme
UrlPath(url) ==
    LET afterScheme == IF StartsWith(url, "http://") THEN SubSeq(url, Len("http:") + 1, Len(url))
                       ELSE IF StartsWith(url, "https://")
                            THEN SubSeq(url, Len("https:") + 1, Len(url))
                            ELSE url
        afterNetloc == IF StartsWith(afterScheme, "//")
                       THEN SubSeq(afterScheme, FindFirst(afterScheme, 3, {"/", "?", "#"}),
                                   Len(afterScheme))
                       ELSE afterScheme
        noFragment == SubSeq(afterNetloc, 1, FindFirst(afterNetloc, 1, {"#"}) - 1)
        noQuery == SubSeq(noFragment, 1, FindFirst(noFragment, 1, {"?"}) - 1)
        lastSlash == IF Contains(noQuery, "/")
                     THEN CHOOSE i \in 1..Len(noQuery) :
                              /\ Ch(noQuery, i) = "/"
                              /\ \A j \in (i + 1)..Len(noQuery) : Ch(noQuery, j) # "/"
                     ELSE 1
    IN  SubSeq(noQuery, 1, FindFirst(noQuery, lastSlash, {";"}) - 1)

(***************************************************************************)
(* Type detection (src/tools/smart-doc-parser.py, 54-57 and 129-184)       *)
(***************************************************************************)
SUPPORTED_IMAGE_TYPES == {".png", ".jpg", ".jpeg", ".gif", ".webp", ".bmp"}
SUPPORTED_PDF_TYPES == {".pdf"}
SUPPORTED_DOCX_TYPES == {".docx"}
SUPPORTED_DOC_TYPES == {".doc"}

\* b'%PDF-'
PDF_MAGIC == <<37, 80, 68, 70, 45>>
\* b'PK\x03\x04'
ZIP_MAGIC == <<80, 75, 3, 4>>
\* b'word/' and b'[Content_Types].xml'
WORD_DIR == <<119, 111, 114, 100, 47>>
CONTENT_TYPES == <<91, 67, 111, 110, 116, 101, 110, 116, 95, 84, 121, 112, 101, 115, 93,
                   46, 120, 109, 108>>
\* b'\xd0\xcf\x11\xe0\xa1\xb1\x1a\xe1'
DOC_MAGIC == <<208, 207, 17, 224, 161, 177, 26, 225>>
\* PNG, JPEG, GIF, RIFF (WebP), BMP
image_signatures == {<<137, 80, 78, 71, 13, 10, 26, 10>>, <<255, 216, 255>>,
                     <<71, 73, 70, 56>>, <<82, 73, 70, 70>>, <<66, 77>>}

\* the length of the prefix searched for the DOCX markers: file_bytes[:4096]
WindowLen == 4096

Min(a, b) == IF a < b THEN a ELSE b

\* a variant that searches the whole body for the DOCX markers
DetectByMagicWholeFile(file_bytes) ==
    IF file_bytes = <<>> THEN "unknown"
    ELSE IF StartsWith(file_bytes, PDF_MAGIC) THEN "pdf"
    ELSE IF /\ StartsWith(file_bytes, ZIP_MAGIC)
            /\ Contains(file_bytes, WORD_DIR) \/ Contains(file_bytes, CONTENT_TYPES)
         THEN "docx"
    ELSE IF StartsWith(file_bytes, DOC_MAGIC) THEN "doc"
    ELSE IF \E signature \in image_signatures : StartsWith(file_bytes, signature)
         THEN "image"
    ELSE "unknown"

\* lines 152-184: the type the leading bytes give
DetectByMagic(file_bytes) ==
    IF file_bytes = <<>> THEN "unknown"
    ELSE IF StartsWith(file_bytes, PDF_MAGIC) THEN "pdf"
    ELSE IF /\ StartsWith(file_bytes, ZIP_MAGIC)
            /\ LET window == SubSeq(file_bytes, 1, Min(WindowLen, Len(file_bytes)))
               IN  Contains(window, WORD_DIR) \/ Contains(window, CONTENT_TYPES)
         THEN "docx"
    ELSE IF StartsWith(file_bytes, DOC_MAGIC) THEN "doc"
    ELSE IF \E signature \in image_signatures : StartsWith(file_bytes, signature)
         THEN "image"
    ELSE "unknown"

\* a variant that looks at the leading bytes before the extension
DetectMagicFirst(file_url, file_bytes) ==
    IF DetectByMagic(file_bytes) # "unknown" THEN DetectByMagic(file_bytes)
    ELSE LET path_lower == Lower(UrlPath(file_url)) IN
         IF \E ext \in SUPPORTED_IMAGE_TYPES : EndsWith(path_lower, ext) THEN "image"
         ELSE IF \E ext \in SUPPORTED_PDF_TYPES : EndsWith(path_lower, ext) THEN "pdf"
         ELSE IF \E ext \in SUPPORTED_DOCX_TYPES : EndsWith(path_lower, ext) THEN "docx"
         ELSE IF \E ext \in SUPPORTED_DOC_TYPES : EndsWith(path_lower, ext) THEN "doc"
         ELSE "unknown"

\* lines 129-150 and the fall through to the leading bytes
_detect_file_type(file_url, file_bytes) ==
    LET path_lower == Lower(UrlPath(file_url)) IN
    IF \E ext \in SUPPORTED_IMAGE_TYPES : EndsWith(path_lower, ext) THEN "image"
    ELSE IF \E ext \in SUPPORTED_PDF_TYPES : EndsWith(path_lower, ext) THEN "pdf"
    ELSE IF \E ext \in SUPPORTED_DOCX_TYPES : EndsWith(path_lower, ext) THEN "docx"
    ELSE IF \E ext \in SUPPORTED_DOC_TYPES : EndsWith(path_lower, ext) THEN "doc"
    ELSE DetectByMagic(file_bytes)

(***************************************************************************)
(* re.findall: a backtracking matcher.  A match state is the position      *)
(* after the text matched so far and the text of each capturing group; a   *)
(* node maps a state to the sequence of the states it can reach, in the    *)
(* order in which the backtracking search tries them.                      *)
(***************************************************************************)
CharsOf(s) == {Ch(s, i) : i \in 1..Len(s)}

UpperCh(c) ==
    IF \E i \in 1..Len(LowerCase) : Ch(LowerCase, i) = c
    THEN Ch(UpperCase, CHOOSE i \in 1..Len(LowerCase) : Ch(LowerCase, i) = c)
    ELSE c

RSet(chars) == [t |-> "set", chars |-> chars]
RCat(nodes) == [t |-> "cat", nodes |-> nodes]
RAlt(nodes) == [t |-> "alt", nodes |-> nodes]
\* greedy repetition, max = -1 for no upper limit
RRep(node, min, max) == [t |-> "rep", node |-> node, min |-> min, max |-> max]
ROpt(node) == RRep(node, 0, 1)
RGroup(g, node) == [t |-> "group", g |-> g, node |-> node]
RWordBoundary == [t |-> "wb"]

RECURSIVE RLit(_)
\* a literal string
RLit(s) == IF Len(s) = 1 THEN RSet({s}) ELSE RCat(<<RSet({Head(s)}), RLit(Tail(s))>>)

WordChars == CharsOf(UpperCase) \cup CharsOf(LowerCase) \cup CharsOf(Digits) \cup {"_"}
\* \d and \s
RDigit == RSet(CharsOf(Digits))
RSpace == RSet({" ", "\t", "\n", "\r"})

MatchState(pos, caps) == [pos |-> pos, caps |-> caps]

\* re.IGNORECASE: a character matches a set when either case of it is in the set
InSetIgnoreCase(c, chars) == c \in chars \/ LowerCh(c) \in chars \/ UpperCh(c) \in chars

IsWordAt(s, i) == i >= 1 /\ i <= Len(s) /\ Ch(s, i) \in WordChars

RECURSIVE Match(_, _, _), MatchEach(_, _, _), MatchCat(_, _, _, _), MatchAlt(_, _, _, _),
          MatchRep(_, _, _, _), MatchRepEach(_, _, _, _, _)
Match(node, s, st) ==
    CASE node.t = "set" ->
           IF st.pos <= Len(s) /\ InSetIgnoreCase(Ch(s, st.pos), node.chars)
           THEN <<MatchState(st.pos + 1, st.caps)>>
           ELSE <<>>
      [] node.t = "wb" ->
           IF IsWordAt(s, st.pos - 1) # IsWordAt(s, st.pos) THEN <<st>> ELSE <<>>
      [] node.t = "cat" -> MatchCat(node.nodes, 1, s, <<st>>)
      [] node.t = "alt" -> MatchAlt(node.nodes, 1, s, st)
      [] node.t = "rep" -> MatchRep(node, s, st, 0)
      [] node.t = "group" ->
           LET inner == Match(node.node, s, st) IN
           [j \in 1..Len(inner) |->
               MatchState(inner[j].pos,
                          [inner[j].caps EXCEPT ![node.g] = SubSeq(s, st.pos, inner[j].pos - 1)])]

\* the states node reaches from each of states, in order
MatchEach(node, s, states) ==
    IF states = <<>> THEN <<>>
    ELSE Match(node, s, Head(states)) \o MatchEach(node, s, Tail(states))

MatchCat(nodes, k, s, states) ==
    IF k > Len(nodes) \/ states = <<>> THEN states
    ELSE MatchCat(nodes, k + 1, s, MatchEach(nodes[k], s, states))

MatchAlt(nodes, k, s, st) ==
    IF k > Len(nodes) THEN <<>>
    ELSE Match(nodes[k], s, st) \o MatchAlt(nodes, k + 1, s, st)

\* count repetitions matched so far ending at st: first one more, then stop
MatchRep(node, s, st, count) ==
    LET more == IF node.max = -1 \/ count < node.max
                THEN MatchRepEach(node, s, Match(node.node, s, st), st.pos, count + 1)
                ELSE <<>>
    IN  more \o (IF count >= node.min THEN <<st>> ELSE <<>>)

MatchRepEach(node, s, states, from, count) ==
    IF states = <<>> THEN <<>>
    ELSE (IF Head(states).pos > from THEN MatchRep(node, s, Head(states), count) ELSE <<>>)
         \o MatchRepEach(node, s, Tail(states), from, count)

NoCaps == <<"", "", "">>

RECURSIVE FindAllFrom(_, _, _, _)
\* re.findall(pattern, s, re.IGNORECASE) from position i: with no group the
\* matched strings, with several groups a tuple of the groups per match
FindAllFrom(node, groups, s, i) ==
    IF i > Len(s) + 1 THEN <<>>
    ELSE LET found == Match(node, s, MatchState(i, NoCaps)) IN
         IF found = <<>> THEN FindAllFrom(node, groups, s, i + 1)
         ELSE LET m == found[1]
                  item == IF groups = 0 THEN PyStr(SubSeq(s, i, m.pos - 1))
                          ELSE IF groups = 1 THEN PyStr(m.caps[1])
                          ELSE PyTuple([g \in 1..groups |-> PyStr(m.caps[g])])
              IN  <<item>> \o FindAllFrom(node, groups, s, IF m.pos > i THEN m.pos ELSE i + 1)

findall(pattern, s) == FindAllFrom(pattern.node, pattern.groups, s, 1)

(***************************************************************************)
(* Basic field extraction (src/tools/smart-doc-parser.py, 448-488)         *)
(***************************************************************************)
AlphaNum == CharsOf(UpperCase) \cup CharsOf(LowerCase) \cup CharsOf(Digits)
Separator == RSet({"-", ".", " ", "\t", "\n", "\r"})
SlashDash == RSet({"/", "-"})
Thousands == RRep(RCat(<<RSet({","}), RRep(RDigit, 3, 3)>>), 0, -1)
Cents == ROpt(RCat(<<RSet({"."}), RRep(RDigit, 2, 2)>>))

\* \b[A-Za-z0-9._%+-]+@[A-Za-z0-9.-]+\.[A-Z|a-z]{2,}\b
EmailPattern ==
    [groups |-> 0,
     node |-> RCat(<<RWordBoundary,
                     RRep(RSet(AlphaNum \cup {".", "_", "%", "+", "-"}), 1, -1),
                     RSet({"@"}),
                     RRep(RSet(AlphaNum \cup {".", "-"}), 1, -1),
                     RSet({"."}),
                     RRep(RSet(CharsOf(UpperCase) \cup CharsOf(LowerCase) \cup {"|"}), 2, -1),
                     RWordBoundary>>)]

\* a variant whose area code is optional: (?:\(?([0-9]{3})\)?[-.\s]?)?([0-9]{3})[-.\s]?([0-9]{4})
PhonePatternLocal ==
    [groups |-> 3,
     node |-> RCat(<<ROpt(RCat(<<ROpt(RSet({"("})),
                                 RGroup(1, RRep(RDigit, 3, 3)),
                                 ROpt(RSet({")"})),
                                 ROpt(Separator)>>)),
                     RGroup(2, RRep(RDigit, 3, 3)),
                     ROpt(Separator),
                     RGroup(3, RRep(RDigit, 4, 4))>>)]

\* (?:\+?1[-.\s]?)?\(?([0-9]{3})\)?[-.\s]?([0-9]{3})[-.\s]?([0-9]{4})
PhonePattern ==
    [groups |-> 3,
     node |-> RCat(<<ROpt(RCat(<<ROpt(RSet({"+"})), RSet({"1"}), ROpt(Separator)>>)),
                     ROpt(RSet({"("})),
                     RGroup(1, RRep(RDigit, 3, 3)),
                     ROpt(RSet({")"})),
                     ROpt(Separator),
                     RGroup(2, RRep(RDigit, 3, 3)),
                     ROpt(Separator),
                     RGroup(3, RRep(RDigit, 4, 4))>>)]

\* \b\d{1,2}[/-]\d{1,2}[/-]\d{2,4}\b|\b\d{4}[/-]\d{1,2}[/-]\d{1,2}\b
DatePattern ==
    [groups |-> 0,
     node |-> RAlt(<<RCat(<<RWordBoundary, RRep(RDigit, 1, 2), SlashDash, RRep(RDigit, 1, 2),
                           SlashDash, RRep(RDigit, 2, 4), RWordBoundary>>),
                     RCat(<<RWordBoundary, RRep(RDigit, 4, 4), SlashDash, RRep(RDigit, 1, 2),
                           SlashDash, RRep(RDigit, 1, 2), RWordBoundary>>)>>)]

\* \$\s*\d+(?:,\d{3})*(?:\.\d{2})?|\b\d+(?:,\d{3})*(?:\.\d{2})?\s*(?:USD|EUR|GBP)\b
AmountPattern ==
    [groups |-> 0,
     node |-> RAlt(<<RCat(<<RSet({"$"}), RRep(RSpace, 0, -1), RRep(RDigit, 1, -1),
                           Thousands, Cents>>),
                     RCat(<<RWordBoundary, RRep(RDigit, 1, -1), Thousands, Cents,
                           RRep(RSpace, 0, -1),
                           RAlt(<<RLit("USD"), RLit("EUR"), RLit("GBP")>>),
                           RWordBoundary>>)>>)]

\* field_patterns, in the order of the dict
field_names == <<"email", "phone", "date", "amount">>
field_patterns == <<EmailPattern, PhonePattern, DatePattern, AmountPattern>>

RECURSIVE ExtractFields(_, _, _, _)
\* the loop over field_patterns from field i
ExtractFields(text, prompt_lower, i, fields) ==
    IF i > Len(field_names) THEN fields
    ELSE LET field_name == field_names[i]
             requested == \/ Contains(prompt_lower, field_name)
                          \/ Contains(prompt_lower, field_name \o "s")
             matches == findall(field_patterns[i], text)
             value == IF Len(matches) > 1 THEN PyList(matches) ELSE matches[1]
         IN  ExtractFields(text, prompt_lower, i + 1,
                           IF requested /\ matches # <<>>
                           THEN DictSet(fields, field_name, value)
                           ELSE fields)

_extract_basic_fields(text, prompt) == ExtractFields(text, Lower(prompt), 1, PyDict(<<>>))

RECURSIVE SplitFrom(_, _)
\* text.split(): the whitespace-separated words of text
SplitFrom(text, i) ==
    LET a == SkipWs(text, i) IN
    IF a > Len(text) THEN <<>>
    ELSE LET b == FindFirst(text, a, Whitespace)
         IN  <<SubSeq(text, a, b - 1)>> \o SplitFrom(text, b)

Split(text) == SplitFrom(text, 1)

_process_extracted_text(text, prompt) ==
    IF Strip(text) = ""
    THEN PyDict(<<Item("raw_text", PyStr("")), Item("extracted_fields", PyDict(<<>>))>>)
    ELSE PyDict(<<Item("raw_text", PyStr(text)),
                  Item("extracted_fields", _extract_basic_fields(text, prompt)),
                  Item("word_count", PyInt(Len(Split(text)))),
                  Item("character_count", PyInt(Len(text)))>>)

(***************************************************************************)
(* The request.  Inputs the request only reads (the environment, the       *)
(* stored credentials, the per-call overrides, which libraries are         *)
(* installed, what a library or a network call returns) are bound at the   *)
(* step that reads them.                                                   *)
(***************************************************************************)
VARIABLES
    pc,             \* where the request is: idle, download, dispatch, a pipeline, emit, done
    prompt,         \* _invoke's prompt, stripped
    file_url,       \* _invoke's file_url, extracted and absolutized
    file_bytes,     \* the downloaded body (see Body), none before the download
    detected_type,  \* the tag _download_and_detect_file returned
    doc,            \* what the installed libraries make of the file
    ocr,            \* _call_ocr_api's locals: caller, client, images, idx, pages_result
    result,         \* the dict the pipeline returned
    messages,       \* the messages _invoke has yielded, in order
    net,            \* the network calls made, in order
    ran,            \* the pipeline functions entered, in order
    tmp_files       \* the scratch files that exist on disk

vars == <<pc, prompt, file_url, file_bytes, detected_type, doc, ocr, result, messages,
          net, ran, tmp_files>>

\* number of pages of a PDF
MaxPages == 3

\* a network call: the download, or the OCR request for a page
NetCall(call, page) == [call |-> call, page |-> page]

TextMessage(text) == [type |-> "text", text |-> text, json |-> PyNone]
JsonMessage(json) == [type |-> "json", text |-> "", json |-> json]

ErrorResult(kind, detail) ==
    PyDict(<<Item("error", PyStr(kind)), Item("detail", PyStr(detail))>>)

NoResult == PyNone
NoBytes == [some |-> FALSE, head |-> <<>>, pad |-> 0, tail |-> <<>>]
\* a body: head, then pad zero bytes, then tail
Sample(head, pad, tail) == [some |-> TRUE, head |-> head, pad |-> pad, tail |-> tail]
Body(f) == f.head \o [i \in 1..f.pad |-> 0] \o f.tail
NoDoc == [kind |-> "none"]
NoOcr == [caller |-> "none", credentials |-> PyNone, api_key |-> "", base_url |-> "",
          model |-> "", images |-> <<>>, idx |-> 0, responses |-> <<>>,
          pages_result |-> <<>>]

(***************************************************************************)
(* The inputs of a request                                                 *)
(***************************************************************************)
PromptInputs ==
    {PyNone, PyStr(" \n"), PyInt(0), PyStr("extract text"), PyStr(" Email and phones ")}

FileUrlInputs ==
    {PyNone, PyStr("  "), PyInt(7),
     PyStr("https://h/a.pdf"), PyStr("http://h/b.PNG"), PyStr(" https://h/c.docx?v=1 "),
     PyStr("https://h/d.doc#p2"), PyStr("https://h/e"), PyStr("https://h/f.pdf.txt"),
     PyStr("https://h/i.jpg;v=2"), PyStr("http://h/j.Jpeg"),
     PyStr("not-a-url"), PyStr("ftp://h/a.pdf"), PyStr("HTTP://h/a.pdf"),
     PyStr("/files/g.webp"), PyStr("\"files/g.gif\""), PyStr("{bad}"),
     PyStr("{\"url\": \" \", \"src\": \"https://h/k.bmp\"}"),
     PyDict(<<Item("file_url", PyList(<<PyStr(""), PyStr(" download/m ")>>))>>),
     PyList(<<PyDict(<<Item("name", PyStr("x"))>>)>>)}

Environs ==
    {PyDict(<<>>),
     PyDict(<<Item("FILES_URL", PyStr("https://files.example/"))>>),
     PyDict(<<Item("FILES_URL", PyStr("files.example")),
              Item("REMOTE_INSTALL_URL", PyStr("localhost:5003"))>>)}

\* credentials.get("file_host_base")
FileHostBases == {PyNone, PyStr("https://host.example//")}

ByteSamples ==
    {Sample(<<>>, 0, <<>>),
     Sample(PDF_MAGIC, 1, <<>>),
     Sample(<<32>>, 0, PDF_MAGIC),
     Sample(ZIP_MAGIC, 0, <<>>),
     Sample(ZIP_MAGIC, 2, WORD_DIR),
     Sample(ZIP_MAGIC, WindowLen - Len(ZIP_MAGIC) - Len(WORD_DIR), WORD_DIR),
     Sample(ZIP_MAGIC, WindowLen - Len(ZIP_MAGIC) - Len(WORD_DIR) + 1, WORD_DIR),
     Sample(ZIP_MAGIC, 3, CONTENT_TYPES),
     Sample(ZIP_MAGIC, WindowLen - Len(ZIP_MAGIC) - 1, CONTENT_TYPES),
     Sample(<<0>>, 0, ZIP_MAGIC \o WORD_DIR),
     Sample(DOC_MAGIC, 1, <<>>),
     Sample(<<137, 80, 78, 71, 13, 10, 26, 10>>, 1, <<>>),
     Sample(<<255, 216, 255>>, 0, <<224>>),
     Sample(<<71, 73, 70, 56>>, 0, <<57, 97>>),
     Sample(<<82, 73, 70, 70>>, 1, <<>>),
     Sample(<<66, 77>>, 0, <<>>),
     Sample(<<104, 101, 108, 108, 111>>, 0, <<>>),
     Sample(<<37, 80, 68, 70>>, 0, <<>>)}

(***************************************************************************)
(* _invoke (src/tools/smart-doc-parser.py, 59-110)                         *)
(***************************************************************************)
\* (the detail is written without the backquotes around file_url)
InvalidFileUrl(value) ==
    PyDict(<<Item("error", PyStr("invalid_file_url")),
             Item("detail", PyStr("file_url must start with http:// or https://")),
             Item("value", PyStr(value))>>)

\* a variant that checks file_url before prompt
ValidateUrlFirst(p, url) ==
    IF url = "" THEN <<TextMessage("Missing required parameter: file_url")>>
    ELSE IF p = "" THEN <<TextMessage("Missing required parameter: prompt")>>
    ELSE IF ~IsHttp(url) THEN <<JsonMessage(InvalidFileUrl(url))>>
    ELSE <<>>

\* a variant without the scheme check of lines 76-82
ValidateNoScheme(p, url) ==
    IF p = "" THEN <<TextMessage("Missing required parameter: prompt")>>
    ELSE IF url = "" THEN <<TextMessage("Missing required parameter: file_url")>>
    ELSE <<>>

\* the messages the validation of lines 68-82 yields; none when it passes
Validate(p, url) ==
    IF p = "" THEN <<TextMessage("Missing required parameter: prompt")>>
    ELSE IF url = "" THEN <<TextMessage("Missing required parameter: file_url")>>
    ELSE IF ~IsHttp(url) THEN <<JsonMessage(InvalidFileUrl(url))>>
    ELSE <<>>

\* a variant that renders the result with str() instead of json.dumps
FormatWithStr(r) == Repr(r)

\* lines 595-601
_format_text_output(r) == Dumps(r)

\* a variant that omits the text message of a page set
EmitResultJsonOnly(r) == <<JsonMessage(r)>>

\* a variant that pairs every result, an error too, with a text message
EmitResultPaired(r) == <<TextMessage(Dumps(r)), JsonMessage(r)>>

\* the messages lines 98-104 yield for the result of the dispatch
EmitResult(r) ==
    IF IsDict(r) /\ HasKey(r, "error")
    THEN <<JsonMessage(r)>>
    ELSE <<TextMessage(_format_text_output(r)), JsonMessage(r)>>

Init ==
    /\ pc = "idle"
    /\ prompt = ""
    /\ file_url = ""
    /\ file_bytes = NoBytes
    /\ detected_type = "unknown"
    /\ doc = NoDoc
    /\ ocr = NoOcr
    /\ result = NoResult
    /\ messages = <<>>
    /\ net = <<>>
    /\ ran = <<>>
    /\ tmp_files = {}

\* lines 59-82: read the parameters, absolutize the URL, validate
Invoke ==
    /\ pc = "idle"
    /\ \E prompt_value \in PromptInputs, raw_file_value \in FileUrlInputs,
          environ \in Environs, file_host_base \in FileHostBases :
          LET p == Strip(IF Truthy(prompt_value) THEN StrOf(prompt_value) ELSE "")
              url == _absolutize_url(_extract_file_url(raw_file_value),
                                     _get_auto_base_url(environ), file_host_base)
          IN  /\ prompt' = p
              /\ file_url' = url
              /\ messages' = Validate(p, url)
              /\ pc' = IF Validate(p, url) = <<>> THEN "download" ELSE "done"
    /\ UNCHANGED <<file_bytes, detected_type, doc, ocr, result, net, ran, tmp_files>>

\* lines 86-93 and 112-127: requests.get raises, or returns a body
Download ==
    /\ pc = "download"
    /\ \E response \in {NoBytes} \cup ByteSamples :
          /\ file_bytes' = response
          /\ detected_type' = IF response.some
                              THEN _detect_file_type(file_url, Body(response))
                              ELSE "unknown"
          /\ IF ~response.some \/ Body(response) = <<>>
             THEN /\ messages' = Append(messages,
                                        JsonMessage(ErrorResult("download_failed",
                                            "Could not download or read the file")))
                  /\ pc' = "done"
             ELSE /\ messages' = messages
                  /\ pc' = "dispatch"
    /\ net' = Append(net, NetCall("GET", 0))
    /\ UNCHANGED <<prompt, file_url, doc, ocr, result, ran, tmp_files>>

(***************************************************************************)
(* _process_file_by_type (src/tools/smart-doc-parser.py, 186-200)          *)
(***************************************************************************)
\* a variant that sends an unrecognised file to OCR
RouteUnknownToOcr(file_type) ==
    CASE file_type = "pdf" -> "_process_pdf"
      [] file_type = "docx" -> "_process_docx"
      [] file_type = "doc" -> "_process_doc"
      [] OTHER -> "_process_image_with_ocr"

\* the pipeline a tag is routed to, "none" for the else branch
Route(file_type) ==
    CASE file_type = "image" -> "_process_image_with_ocr"
      [] file_type = "pdf" -> "_process_pdf"
      [] file_type = "docx" -> "_process_docx"
      [] file_type = "doc" -> "_process_doc"
      [] OTHER -> "none"

Unsupported(file_type) ==
    ErrorResult("unsupported_file_type",
                "File type '" \o file_type
                \o "' is not supported. Supported types: images, PDF, DOCX, DOC")

\* lines 95-96 and 186-200
Dispatch ==
    /\ pc = "dispatch"
    /\ IF Route(detected_type) = "none"
       THEN /\ result' = Unsupported(detected_type)
            /\ pc' = "emit"
            /\ ran' = ran
       ELSE /\ result' = result
            /\ pc' = Route(detected_type)
            /\ ran' = Append(ran, Route(detected_type))
    \* the dispatch hands the body to the pipeline, which reads it through a library
    /\ file_url' = ""
    /\ file_bytes' = NoBytes
    /\ UNCHANGED <<prompt, detected_type, doc, ocr, messages, net, tmp_files>>

(***************************************************************************)
(* The OCR pipeline (src/tools/smart-doc-parser.py, 202-209 and 504-558)   *)
(***************************************************************************)
\* what a call finds in tool_parameters ("api_key" and "model", the per-call
\* overrides) and in the stored credentials ("api_key", "model", "base_url")
Credentials ==
    {[override_key |-> PyNone, stored_key |-> PyNone,
      override_model |-> PyNone, stored_model |-> PyNone, stored_base_url |-> PyNone],
     [override_key |-> PyStr(""), stored_key |-> PyStr("stored-key"),
      override_model |-> PyStr(""), stored_model |-> PyStr("stored-model"),
      stored_base_url |-> PyStr("https://api.example/v1")],
     [override_key |-> PyStr(" call-key "), stored_key |-> PyStr("stored-key"),
      override_model |-> PyStr("call-model"), stored_model |-> PyStr("stored-model"),
      stored_base_url |-> PyNone],
     [override_key |-> PyNone, stored_key |-> PyStr("stored-key"),
      override_model |-> PyNone, stored_model |-> PyStr("stored-model"),
      stored_base_url |-> PyStr(" https://api.example/v1 ")],
     [override_key |-> PyStr(" call-key "), stored_key |-> PyNone,
      override_model |-> PyNone, stored_model |-> PyNone,
      stored_base_url |-> PyStr("https://api.example/v1")]}

\* str(v or default).strip()
StrOr(v, default) == Strip(IF Truthy(v) THEN StrOf(v) ELSE default)

ResolveApiKey(override_key, stored_key) ==
    StrOr(IF override_key # PyNone THEN override_key ELSE stored_key, "")

ResolveModel(override_model, stored_model) ==
    StrOr(IF override_model # PyNone THEN override_model ELSE stored_model, "qwen-vl-ocr")

ResolveBaseUrl(stored_base_url) ==
    StrOr(stored_base_url, "https://dashscope.aliyuncs.com/compatible-mode/v1")

\* f"data:{content_type};base64,{encoded}", payload naming the encoded bytes
DataUrl(content_type, payload) == "data:" \o content_type \o ";base64," \o payload

\* what chat.completions.create does for a page: it raises, or returns a
\* response with no choices, or with a first choice whose content is None or a
\* text (the empty text too)
OcrOutcomes ==
    {[raises |-> TRUE, choices |-> FALSE, content |-> PyStr("Connection error.")],
     [raises |-> FALSE, choices |-> FALSE, content |-> PyNone],
     [raises |-> FALSE, choices |-> TRUE, content |-> PyNone],
     [raises |-> FALSE, choices |-> TRUE, content |-> PyStr("")],
     [raises |-> FALSE, choices |-> TRUE, content |-> PyStr("{\"total\": 5}")],
     [raises |-> FALSE, choices |-> TRUE, content |-> PyStr("[1, 2]")],
     [raises |-> FALSE, choices |-> TRUE, content |-> PyStr("Total: 5")]}

\* a variant that answers a parse failure with an empty object
SafeJsonLoadsDropsText(s) ==
    IF Loads(s).ok THEN Loads(s).val ELSE PyDict(<<>>)

\* lines 585-593
safe_json_loads(s) ==
    IF Loads(s).ok THEN Loads(s).val ELSE PyDict(<<Item("raw", PyStr(s))>>)

\* a variant that writes the page number as a string
PageEntryStrPage(idx, outcome) ==
    IF outcome.raises
    THEN PyDict(<<Item("page", PyStr(IntToStr(idx))), Item("error", outcome.content)>>)
    ELSE PyDict(<<Item("page", PyStr(IntToStr(idx))),
                  Item("content", safe_json_loads(IF outcome.choices /\ Truthy(outcome.content)
                                                  THEN outcome.content.s ELSE "{}"))>>)

\* lines 533-553: the entry of pages_result for page idx
PageEntry(idx, outcome) ==
    IF outcome.raises
    THEN PyDict(<<Item("page", PyInt(idx)), Item("error", outcome.content)>>)
    ELSE LET page_text == IF outcome.choices /\ Truthy(outcome.content)
                          THEN outcome.content.s ELSE "{}"
         IN  PyDict(<<Item("page", PyInt(idx)), Item("content", safe_json_loads(page_text))>>)

\* what the call for a page gave: whether it raised, and str(e) of the
\* exception or the text the response held (None when it held none)
Response(outcome) ==
    [raises |-> outcome.raises,
     returned |-> IF outcome.raises \/ outcome.choices THEN outcome.content ELSE PyNone]

\* a variant of the loop that stops at the first page whose call raises
BatchEndsOnFailure(o, outcome) == o.idx = Len(o.images) \/ outcome.raises

\* line 522: the loop over the images ends after the last one
BatchEnds(o, outcome) == o.idx = Len(o.images)

\* a variant that answers a batch in which every page failed with an error
PageSetErrorWhenAllFail(pages, method) ==
    IF pages # <<>> /\ \A i \in 1..Len(pages) : HasKey(pages[i], "error")
    THEN ErrorResult("ocr_failed", "every page failed")
    ELSE PyDict(<<Item("pages", PyList(pages)), Item("extraction_method", PyStr(method))>>)

PageSet(pages, method) ==
    PyDict(<<Item("pages", PyList(pages)), Item("extraction_method", PyStr(method))>>)

\* lines 202-209: the image is the one page of the OCR call
ProcessImage ==
    /\ pc = "_process_image_with_ocr"
    /\ ocr' = [NoOcr EXCEPT !.caller = "image_ocr_failed",
                            !.images = <<DataUrl("image/jpeg", "file")>>]
    /\ pc' = "_call_ocr_api"
    /\ ran' = Append(ran, "_call_ocr_api")
    /\ UNCHANGED <<prompt, file_url, file_bytes, detected_type, doc, result, messages, net,
                   tmp_files>>

\* a variant that answers a client that cannot be built with a page set of
\* one error entry per image
CallOcrApiErrorPages ==
    /\ pc = "_call_ocr_api"
    /\ \E c \in Credentials, client_raises \in BOOLEAN :
          IF client_raises
          THEN /\ result' = PageSet([i \in 1..Len(ocr.images) |->
                                        PyDict(<<Item("page", PyInt(i)),
                                                 Item("error", PyStr("client error"))>>)],
                                    "ocr_api")
               /\ ocr' = ocr
               /\ pc' = "emit"
          ELSE /\ result' = result
               /\ ocr' = [ocr EXCEPT !.credentials = c,
                                     !.api_key = ResolveApiKey(c.override_key, c.stored_key),
                                     !.base_url = ResolveBaseUrl(c.stored_base_url),
                                     !.model = ResolveModel(c.override_model, c.stored_model),
                                     !.idx = 1]
               /\ pc' = "ocr"
    /\ UNCHANGED <<prompt, file_url, file_bytes, detected_type, doc, messages, net, ran,
                   tmp_files>>

\* lines 504-520: resolve the credentials and build the client; an exception
\* is caught by the calling pipeline, which returns its own error kind
CallOcrApi ==
    /\ pc = "_call_ocr_api"
    /\ \E c \in Credentials, client_raises \in BOOLEAN :
          IF client_raises
          THEN /\ result' = ErrorResult(ocr.caller, "client error")
               /\ ocr' = ocr
               /\ pc' = "emit"
          ELSE /\ result' = result
               /\ ocr' = [ocr EXCEPT !.credentials = c,
                                     !.api_key = ResolveApiKey(c.override_key, c.stored_key),
                                     !.base_url = ResolveBaseUrl(c.stored_base_url),
                                     !.model = ResolveModel(c.override_model, c.stored_model),
                                     !.idx = 1]
               /\ pc' = "ocr"
    /\ UNCHANGED <<prompt, file_url, file_bytes, detected_type, doc, messages, net, ran,
                   tmp_files>>

\* lines 522-539: the request for page idx is sent
OcrRequest ==
    /\ pc = "ocr"
    /\ net' = Append(net, NetCall("OCR", ocr.idx))
    /\ pc' = "ocr_wait"
    /\ UNCHANGED <<prompt, file_url, file_bytes, detected_type, doc, ocr, result, messages,
                   ran, tmp_files>>

\* a variant that sends the request of a page again, once, when it raised
OcrResponseRetriesOnce ==
    /\ pc = "ocr_wait"
    /\ \E outcome \in OcrOutcomes :
          LET pages == Append(ocr.pages_result, PageEntry(ocr.idx, outcome))
              sent == Cardinality({i \in 1..Len(net) : net[i] = NetCall("OCR", ocr.idx)})
          IN  IF outcome.raises /\ sent < 2
              THEN /\ ocr' = ocr
                   /\ result' = result
                   /\ pc' = "ocr"
              ELSE /\ ocr' = [ocr EXCEPT !.pages_result = pages, !.idx = ocr.idx + 1,
                                         !.responses = Append(ocr.responses,
                                                              Response(outcome))]
                   /\ IF BatchEnds(ocr, outcome)
                      THEN /\ result' = PageSet(pages, "ocr_api")
                           /\ pc' = "emit"
                      ELSE /\ result' = result
                           /\ pc' = "ocr"
    /\ UNCHANGED <<prompt, file_url, file_bytes, detected_type, doc, messages, net, ran,
                   tmp_files>>

\* lines 540-558: the request returns or raises; after the last page the
\* page set is returned
OcrResponse ==
    /\ pc = "ocr_wait"
    /\ \E outcome \in OcrOutcomes :
          LET pages == Append(ocr.pages_result, PageEntry(ocr.idx, outcome)) IN
          /\ ocr' = [ocr EXCEPT !.pages_result = pages, !.idx = ocr.idx + 1,
                                !.responses = Append(ocr.responses, Response(outcome))]
          /\ IF BatchEnds(ocr, outcome)
             THEN /\ result' = PageSet(pages, "ocr_api")
                  /\ pc' = "emit"
             ELSE /\ result' = result
                  /\ pc' = "ocr"
    /\ UNCHANGED <<prompt, file_url, file_bytes, detected_type, doc, messages, net, ran,
                   tmp_files>>

(***************************************************************************)
(* The PDF pipeline (src/tools/smart-doc-parser.py, 211-223, 256-342,      *)
(* 490-502 and 561-578)                                                    *)
(***************************************************************************)
\* a page's text as a library extracts it
PdfTexts == {" \n", "Call 555-012-3456 a@b.com", "Due 1/2/2024: pay $5 USD\n"}

\* a PDF and the libraries that read it: which are installed, the text of
\* each page, and where each library raises on this file (0: on opening it,
\* k: on page k, pages + 1: nowhere)
PdfDocs ==
    {d \in [kind : {"pdf"}, HAS_PYMUPDF : BOOLEAN, HAS_PYPDF2 : BOOLEAN,
            texts : UNION {[1..n -> PdfTexts] : n \in 1..MaxPages},
            fitz_raises_at : 0..(MaxPages + 1), pypdf2_raises_at : 0..(MaxPages + 1)] :
        /\ d.fitz_raises_at <= Len(d.texts) + 1
        /\ d.pypdf2_raises_at <= Len(d.texts) + 1
        /\ ~d.HAS_PYMUPDF => d.fitz_raises_at = Len(d.texts) + 1
        /\ ~d.HAS_PYPDF2 => d.pypdf2_raises_at = Len(d.texts) + 1}

\* pages_to_check = min(3, len(doc)) and the threshold of line 275
PagesToCheck == 3
ScannedThreshold == 50

RECURSIVE TotalTextLength(_, _)
\* the sum of len(text.strip()) over the first n pages
TotalTextLength(texts, n) ==
    IF n = 0 THEN 0 ELSE TotalTextLength(texts, n - 1) + Len(Strip(texts[n]))

\* a variant that takes a PDF on which the installed libraries raise for one
\* with text
IsPdfScannedRaiseIsText(d) ==
    LET pages_to_check == Min(PagesToCheck, Len(d.texts))
        total_text_length == TotalTextLength(d.texts, pages_to_check)
    IN  IF d.HAS_PYMUPDF /\ d.fitz_raises_at > pages_to_check
        THEN total_text_length < ScannedThreshold
        ELSE IF d.HAS_PYPDF2 /\ d.pypdf2_raises_at > pages_to_check
        THEN total_text_length < ScannedThreshold
        ELSE ~d.HAS_PYMUPDF /\ ~d.HAS_PYPDF2

\* a variant that answers not scanned when no library measured the text
IsPdfScannedDefaultsFalse(d) ==
    LET pages_to_check == Min(PagesToCheck, Len(d.texts))
        total_text_length == TotalTextLength(d.texts, pages_to_check)
    IN  IF d.HAS_PYMUPDF /\ d.fitz_raises_at > pages_to_check
        THEN total_text_length < ScannedThreshold
        ELSE IF d.HAS_PYPDF2 /\ d.pypdf2_raises_at > pages_to_check
        THEN total_text_length < ScannedThreshold
        ELSE FALSE

\* a variant that sums the text of every page
IsPdfScannedAllPages(d) ==
    LET pages_to_check == Len(d.texts)
        total_text_length == TotalTextLength(d.texts, pages_to_check)
    IN  IF d.HAS_PYMUPDF /\ d.fitz_raises_at > pages_to_check
        THEN total_text_length < ScannedThreshold
        ELSE IF d.HAS_PYPDF2 /\ d.pypdf2_raises_at > pages_to_check
        THEN total_text_length < ScannedThreshold
        ELSE TRUE

\* lines 256-296
_is_pdf_scanned(d) ==
    LET pages_to_check == Min(PagesToCheck, Len(d.texts))
        total_text_length == TotalTextLength(d.texts, pages_to_check)
    IN  IF d.HAS_PYMUPDF /\ d.fitz_raises_at > pages_to_check
        THEN total_text_length < ScannedThreshold
        ELSE IF d.HAS_PYPDF2 /\ d.pypdf2_raises_at > pages_to_check
        THEN total_text_length < ScannedThreshold
        ELSE TRUE

PagesContent(texts, p) ==
    [n \in 1..Len(texts) |->
        PyDict(<<Item("page", PyInt(n)),
                 Item("content", _process_extracted_text(Strip(texts[n]), p))>>)]

\* a variant that reads the PDF with PyPDF2 when fitz raised
ExtractTextFromPdfFallsBack(d, p) ==
    IF d.HAS_PYMUPDF /\ d.fitz_raises_at > Len(d.texts)
    THEN PageSet(PagesContent(d.texts, p), "direct_pdf_text")
    ELSE IF d.HAS_PYPDF2
    THEN IF d.pypdf2_raises_at <= Len(d.texts)
         THEN ErrorResult("pdf_text_extraction_failed", "PyPDF2 error")
         ELSE PageSet(PagesContent(d.texts, p), "direct_pdf_text")
    ELSE IF d.HAS_PYMUPDF
    THEN ErrorResult("pdf_text_extraction_failed", "fitz error")
    ELSE ErrorResult("pdf_library_missing",
                     "No PDF text extraction library available (PyMuPDF or PyPDF2 required)")

\* a variant that returns the pages read before the library raised
ExtractTextFromPdfPartial(d, p) ==
    LET raises_at == IF d.HAS_PYMUPDF THEN d.fitz_raises_at ELSE d.pypdf2_raises_at IN
    IF ~d.HAS_PYMUPDF /\ ~d.HAS_PYPDF2
    THEN ErrorResult("pdf_library_missing",
                     "No PDF text extraction library available (PyMuPDF or PyPDF2 required)")
    ELSE PageSet(SubSeq(PagesContent(d.texts, p), 1, Min(raises_at, Len(d.texts) + 1) - 1),
                 "direct_pdf_text")

\* lines 298-342
_extract_text_from_pdf(d, p) ==
    IF d.HAS_PYMUPDF
    THEN IF d.fitz_raises_at <= Len(d.texts)
         THEN ErrorResult("pdf_text_extraction_failed", "fitz error")
         ELSE PageSet(PagesContent(d.texts, p), "direct_pdf_text")
    ELSE IF d.HAS_PYPDF2
    THEN IF d.pypdf2_raises_at <= Len(d.texts)
         THEN ErrorResult("pdf_text_extraction_failed", "PyPDF2 error")
         ELSE PageSet(PagesContent(d.texts, p), "direct_pdf_text")
    ELSE ErrorResult("pdf_library_missing",
                     "No PDF text extraction library available (PyMuPDF or PyPDF2 required)")

\* lines 211-223
ProcessPdf ==
    /\ pc = "_process_pdf"
    /\ \E d \in PdfDocs :
          /\ doc' = d
          /\ IF _is_pdf_scanned(d)
             THEN /\ result' = result
                  /\ pc' = "_process_scanned_pdf_with_ocr"
                  /\ ran' = Append(ran, "_process_scanned_pdf_with_ocr")
             ELSE /\ result' = _extract_text_from_pdf(d, prompt)
                  /\ pc' = "emit"
                  /\ ran' = Append(ran, "_extract_text_from_pdf")
    /\ UNCHANGED <<prompt, file_url, file_bytes, detected_type, ocr, messages, net,
                   tmp_files>>

RECURSIVE RenderedFrom(_, _, _)
\* the data URLs of pages index..last, but for the page that renders to
\* something that is no image
RenderedFrom(index, last, not_image) ==
    IF index > last THEN <<>>
    ELSE (IF index = not_image THEN <<>>
          ELSE <<DataUrl("image/png", "page" \o IntToStr(index))>>)
         \o RenderedFrom(index + 1, last, not_image)

\* lines 561-578: the data URLs appended before pdfium raises (raises_at 0: on
\* opening the file, k: on page k, pages + 1: nowhere), the page that renders
\* to no image skipped (not_image 0: none)
_convert_pdf_to_data_urls(pages, raises_at, not_image) ==
    RenderedFrom(1, Min(pages, raises_at - 1), not_image)

\* a variant that hands an empty list of images on, as a page set of no page
ProcessScannedPdfNoCheck ==
    /\ pc = "_process_scanned_pdf_with_ocr"
    /\ \E raises_at \in 0..(Len(doc.texts) + 1), not_image \in 0..Len(doc.texts) :
          LET images == _convert_pdf_to_data_urls(Len(doc.texts), raises_at, not_image) IN
          /\ not_image < raises_at
          /\ doc' = [kind |-> "rendered", pages |-> Len(doc.texts), raises_at |-> raises_at,
                     not_image |-> not_image]
          /\ IF images = <<>>
             THEN /\ result' = PageSet(<<>>, "ocr_api")
                  /\ ocr' = ocr
                  /\ pc' = "emit"
                  /\ ran' = ran \o <<"_convert_pdf_to_data_urls", "_call_ocr_api">>
             ELSE /\ result' = result
                  /\ ocr' = [NoOcr EXCEPT !.caller = "scanned_pdf_ocr_failed",
                                          !.images = images]
                  /\ pc' = "_call_ocr_api"
                  /\ ran' = ran \o <<"_convert_pdf_to_data_urls", "_call_ocr_api">>
    /\ UNCHANGED <<prompt, file_url, file_bytes, detected_type, messages, net, tmp_files>>

\* lines 490-502
ProcessScannedPdf ==
    /\ pc = "_process_scanned_pdf_with_ocr"
    /\ \E raises_at \in 0..(Len(doc.texts) + 1), not_image \in 0..Len(doc.texts) :
          LET images == _convert_pdf_to_data_urls(Len(doc.texts), raises_at, not_image) IN
          /\ not_image < raises_at
          /\ doc' = [kind |-> "rendered", pages |-> Len(doc.texts), raises_at |-> raises_at,
                     not_image |-> not_image]
          /\ IF images = <<>>
             THEN /\ result' = ErrorResult("pdf_convert_failed",
                                           "No images could be rendered from PDF")
                  /\ ocr' = ocr
                  /\ pc' = "emit"
                  /\ ran' = Append(ran, "_convert_pdf_to_data_urls")
             ELSE /\ result' = result
                  /\ ocr' = [NoOcr EXCEPT !.caller = "scanned_pdf_ocr_failed",
                                          !.images = images]
                  /\ pc' = "_call_ocr_api"
                  /\ ran' = ran \o <<"_convert_pdf_to_data_urls", "_call_ocr_api">>
    /\ UNCHANGED <<prompt, file_url, file_bytes, detected_type, messages, net, tmp_files>>

(***************************************************************************)
(* The DOCX pipeline (src/tools/smart-doc-parser.py, 225-236 and 344-372)  *)
(***************************************************************************)
\* a DOCX and python-docx: whether it is installed, whether it raises on
\* this file, the paragraphs, and the tables as rows of cells
DocxDocs ==
    [kind : {"docx"}, HAS_PYTHON_DOCX : BOOLEAN, raises : BOOLEAN,
     paragraphs : {<<>>, <<"A", "B">>, <<" ", " Mail a@b.com ", "">>},
     tables : {<<>>, <<<<<<"c1", " ">>, <<"c2\n">>>>, <<<<"d1">>>>>>}]

RECURSIVE NonEmptyStripped(_)
\* the stripped texts that are not empty
NonEmptyStripped(texts) ==
    IF texts = <<>> THEN <<>>
    ELSE (IF Strip(Head(texts)) # "" THEN <<Strip(Head(texts))>> ELSE <<>>)
         \o NonEmptyStripped(Tail(texts))

RECURSIVE Flatten(_)
Flatten(seqs) == IF seqs = <<>> THEN <<>> ELSE Head(seqs) \o Flatten(Tail(seqs))

RECURSIVE Join(_, _)
\* sep.join(parts)
Join(sep, parts) ==
    IF parts = <<>> THEN ""
    ELSE IF Len(parts) = 1 THEN parts[1]
    ELSE parts[1] \o sep \o Join(sep, Tail(parts))

\* a variant that keeps the paragraphs and cells whose text is blank
ExtractTextFromDocxKeepsBlank(d, p) ==
    IF d.raises THEN ErrorResult("docx_text_extraction_failed", "docx error")
    ELSE LET full_text_parts == [i \in 1..Len(d.paragraphs) |-> Strip(d.paragraphs[i])]
                                \o [i \in 1..Len(Flatten(Flatten(d.tables))) |->
                                       Strip(Flatten(Flatten(d.tables))[i])]
             full_text == Join("\n", full_text_parts)
         IN  PageSet(<<PyDict(<<Item("page", PyInt(1)),
                                Item("content", _process_extracted_text(full_text, p))>>)>>,
                     "direct_docx_text")

\* lines 344-372
_extract_text_from_docx(d, p) ==
    IF d.raises THEN ErrorResult("docx_text_extraction_failed", "docx error")
    ELSE LET full_text_parts == NonEmptyStripped(d.paragraphs)
                                \o NonEmptyStripped(Flatten(Flatten(d.tables)))
             full_text == Join("\n", full_text_parts)
         IN  PageSet(<<PyDict(<<Item("page", PyInt(1)),
                                Item("content", _process_extracted_text(full_text, p))>>)>>,
                     "direct_docx_text")

_process_docx(d, p) ==
    IF ~d.HAS_PYTHON_DOCX
    THEN ErrorResult("docx_not_supported",
                     "python-docx library not installed. Cannot process DOCX files.")
    ELSE _extract_text_from_docx(d, p)

\* lines 225-236
ProcessDocx ==
    /\ pc = "_process_docx"
    /\ \E d \in DocxDocs :
          /\ doc' = d
          /\ result' = _process_docx(d, prompt)
          /\ ran' = IF d.HAS_PYTHON_DOCX THEN Append(ran, "_extract_text_from_docx") ELSE ran
    /\ pc' = "emit"
    /\ UNCHANGED <<prompt, file_url, file_bytes, detected_type, ocr, messages, net,
                   tmp_files>>

(***************************************************************************)
(* The legacy DOC pipeline (src/tools/smart-doc-parser.py, 238-254 and     *)
(* 374-446)                                                                *)
(***************************************************************************)
\* scratch files that failed requests may leave on disk
MaxLeaked == 1

\* a DOC and textract: whether it is installed, what happens to the scratch
\* file (creating it raises, writing it raises, or it is written), whether
\* textract raises, the text it returns once decoded, and whether os.unlink
\* raises
DocDocs ==
    [kind : {"doc"}, HAS_TEXTRACT : BOOLEAN, scratch : {"create_raises", "write_raises", "ok"},
     textract_raises : BOOLEAN, text : {"", " \n", " Legacy phone 555 012 3456 \n"},
     unlink_raises : BOOLEAN]

\* a variant that also returns an empty page list
FallbackWithPages(reason) ==
    PyDict(<<Item("pages", PyList(<<>>)),
             Item("error", PyStr("doc_processing_requires_conversion")),
             Item("detail", PyStr(reason))>>)

\* lines 425-446
_process_doc_with_ocr_fallback(reason) ==
    PyDict(<<Item("error", PyStr("doc_processing_requires_conversion")),
             Item("detail", PyStr("Cannot process .doc files directly. " \o reason \o ". "
                 \o "Please convert .doc to .pdf or .docx format, or use OCR processing. "
                 \o "Alternatively, install textract with system dependencies "
                 \o "(antiword, etc.) for direct processing.")),
             Item("suggestion",
                  PyStr("Convert DOC to DOCX/PDF format or use OCR via image conversion"))>>)

\* whether _extract_text_from_doc raises on d
ExtractDocRaises(d) == d.scratch # "ok" \/ d.textract_raises

\* lines 405-414: the result once textract has returned full_text
_extract_text_from_doc(d, p) ==
    LET full_text == IF d.text = "" \/ Strip(d.text) = "" THEN "" ELSE d.text IN
    PageSet(<<PyDict(<<Item("page", PyInt(1)),
                       Item("content", _process_extracted_text(Strip(full_text), p))>>)>>,
            "direct_doc_text")

\* a variant that answers an extraction that raised with an error of its own
ProcessDocFailsOnRaise(d, p) ==
    IF d.HAS_TEXTRACT
    THEN IF ExtractDocRaises(d)
         THEN ErrorResult("doc_text_extraction_failed", "Text extraction failed: textract error")
         ELSE _extract_text_from_doc(d, p)
    ELSE _process_doc_with_ocr_fallback("textract not available")

\* lines 238-254
_process_doc(d, p) ==
    IF d.HAS_TEXTRACT
    THEN IF ExtractDocRaises(d)
         THEN _process_doc_with_ocr_fallback("Text extraction failed: textract error")
         ELSE _extract_text_from_doc(d, p)
    ELSE _process_doc_with_ocr_fallback("textract not available")

\* whether the scratch file of this call is still on disk when it returns: it
\* was created, and the finally clause was not reached or its unlink raised
ScratchLeft(d) ==
    /\ d.HAS_TEXTRACT
    /\ \/ d.scratch = "write_raises"
       \/ d.scratch = "ok" /\ d.unlink_raises

\* lines 238-254 and 374-423
ProcessDoc ==
    /\ pc = "_process_doc"
    /\ \E d \in DocDocs :
          /\ ScratchLeft(d) => Cardinality(tmp_files) < MaxLeaked
          /\ doc' = d
          /\ result' = _process_doc(d, prompt)
          /\ tmp_files' = IF ScratchLeft(d)
                          THEN tmp_files \cup {Cardinality(tmp_files) + 1}
                          ELSE tmp_files
          /\ ran' = ran \o (IF d.HAS_TEXTRACT THEN <<"_extract_text_from_doc">> ELSE <<>>)
                       \o (IF ~d.HAS_TEXTRACT \/ ExtractDocRaises(d)
                           THEN <<"_process_doc_with_ocr_fallback">> ELSE <<>>)
    /\ pc' = "emit"
    /\ UNCHANGED <<prompt, file_url, file_bytes, detected_type, ocr, messages, net>>

\* lines 98-104: yield the messages for the result
Emit ==
    /\ pc = "emit"
    /\ messages' = messages \o EmitResult(result)
    /\ pc' = "done"
    /\ UNCHANGED <<prompt, file_url, file_bytes, detected_type, doc, ocr, result, net, ran,
                   tmp_files>>

\* the generator is exhausted; the tool takes the next request
Return ==
    /\ pc = "done"
    /\ pc' = "idle"
    /\ prompt' = ""
    /\ file_url' = ""
    /\ file_bytes' = NoBytes
    /\ detected_type' = "unknown"
    /\ doc' = NoDoc
    /\ ocr' = NoOcr
    /\ result' = NoResult
    /\ messages' = <<>>
    /\ net' = <<>>
    /\ ran' = <<>>
    /\ UNCHANGED tmp_files

Next ==
    \/ Invoke
    \/ Download
    \/ Dispatch
    \/ ProcessImage
    \/ CallOcrApi
    \/ OcrRequest
    \/ OcrResponse
    \/ ProcessPdf
    \/ ProcessScannedPdf
    \/ ProcessDocx
    \/ ProcessDoc
    \/ Emit
    \/ Return

Spec == Init /\ [][Next]_vars


(***************************************************************************)
(* Properties                                                              *)
(***************************************************************************)
Finished == pc = "done"

IsText(m) == m.type = "text"
IsJson(m) == m.type = "json"
HasError(r) == r.k = "dict" /\ \E i \in 1..Len(r.items) : r.items[i].key = "error"
HasPages(r) == r.k = "dict" /\ \E i \in 1..Len(r.items) : r.items[i].key = "pages"

\* the value of the first item of dict r with this key
Field(r, key) == r.items[CHOOSE i \in 1..Len(r.items) : r.items[i].key = key].val

\* ms is exactly one structured message whose payload has this error kind
OneError(ms, kind) ==
    /\ Len(ms) = 1
    /\ IsJson(ms[1])
    /\ HasError(ms[1].json)
    /\ Field(ms[1].json, "error") = [k |-> "str", s |-> kind]

NotHttp(url) ==
    /\ ~(Len(url) >= 7 /\ SubSeq(url, 1, 7) = "http://")
    /\ ~(Len(url) >= 8 /\ SubSeq(url, 1, 8) = "https://")

\* C1 (as amended): a request emits nothing until it ends, and when it ends
\* it has emitted exactly one text message (a validation failure, before any
\* network access), or exactly one structured message carrying an error
\* payload, or exactly two messages, a text message followed by a structured
\* message carrying a page set.
C1_MessagesPerRequest ==
    /\ ~Finished => messages = <<>>
    /\ Finished =>
          \/ Len(messages) = 1 /\ IsText(messages[1]) /\ net = <<>> /\ ran = <<>>
          \/ Len(messages) = 1 /\ IsJson(messages[1]) /\ HasError(messages[1].json)
          \/ /\ Len(messages) = 2
             /\ IsText(messages[1])
             /\ IsJson(messages[2])
             /\ HasPages(messages[2].json)
             /\ ~HasError(messages[2].json)

\* C1 as stated: a finished request has emitted exactly one text message,
\* and then made no network access, or exactly two messages, a text message
\* and a structured message.
C1_OneTextOrTwo ==
    Finished =>
        \/ Len(messages) = 1 /\ IsText(messages[1]) /\ net = <<>>
        \/ Len(messages) = 2 /\ IsText(messages[1]) /\ IsJson(messages[2])

\* a request that a pipeline ended with an error: one structured message
C1_Witness ==
    /\ Finished
    /\ ran # <<>>
    /\ Len(messages) = 1
    /\ IsJson(messages[1])

C2_Step ==
    \* the URL is not an http(s) URL
    /\ (pc = "idle" /\ prompt' # "" /\ file_url' # "" /\ NotHttp(file_url')) =>
          pc' = "done" /\ OneError(messages', "invalid_file_url") /\ net' = <<>>
    \* the download raised or returned an empty body
    /\ (pc = "download" /\ (~file_bytes'.some \/ Body(file_bytes') = <<>>)) =>
          /\ pc' = "done"
          /\ OneError(messages', "download_failed")
          /\ ran' = <<>>
          /\ result' = NoResult
    \* the dispatch returned an error
    /\ (pc = "emit" /\ HasError(result)) =>
          pc' = "done" /\ messages' = <<[type |-> "json", text |-> "", json |-> result]>>
    \* no error payload is ever paired with another message
    /\ (\E i \in 1..Len(messages') : IsJson(messages'[i]) /\ HasError(messages'[i].json)) =>
          Len(messages') = 1

\* C2: a request that ends in an error (an invalid URL, a failed download,
\* an error returned by the dispatch) emits exactly one message, the
\* structured message carrying the error payload, and no text message; a
\* failed download emits one structured download_failed message and runs no
\* pipeline.
C2_ErrorIsOneStructuredMessage == [][C2_Step]_vars

\* a download failed and the request ended with the one structured message
C2_Witness ==
    /\ Finished
    /\ OneError(messages, "download_failed")
    /\ net = <<[call |-> "GET", page |-> 0]>>
    /\ ran = <<>>

RECURSIVE AsJson(_)
\* the value as a JSON document holds it: a tuple is an array
AsJson(v) ==
    CASE v.k \in {"list", "tuple"} ->
             [k |-> "list", v |-> [i \in 1..Len(v.v) |-> AsJson(v.v[i])]]
      [] v.k = "dict" ->
             [k |-> "dict",
              items |-> [i \in 1..Len(v.items) |->
                            [key |-> v.items[i].key, val |-> AsJson(v.items[i].val)]]]
      [] OTHER -> v

C4_Step ==
    (pc = "idle" /\ pc' # "idle") =>
        /\ prompt' = "" =>
              /\ messages' = <<[type |-> "text", json |-> PyNone,
                                text |-> "Missing required parameter: prompt"]>>
              /\ pc' = "done"
              /\ net' = <<>>
        /\ (prompt' # "" /\ file_url' = "") =>
              /\ messages' = <<[type |-> "text", json |-> PyNone,
                                text |-> "Missing required parameter: file_url"]>>
              /\ pc' = "done"
              /\ net' = <<>>

\* C4: a request whose prompt is missing or blank ends at once with the one
\* text message "Missing required parameter: prompt", whatever its file_url;
\* one whose prompt is present and whose file_url resolves to the empty
\* string ends at once with the one text message "Missing required
\* parameter: file_url"; neither makes a download or an OCR call.
C4_ValidationFirst == [][C4_Step]_vars

\* a request with a prompt and no file_url ended with the text message
C4_Witness ==
    /\ Finished
    /\ prompt # ""
    /\ file_url = ""
    /\ Len(messages) = 1
    /\ IsText(messages[1])
    /\ messages[1].text = "Missing required parameter: file_url"

\* C5: a request with a prompt whose file_url, once absolutized, is not
\* empty and starts with neither http:// nor https:// has ended with
\* exactly one structured message, an invalid_file_url error naming the
\* URL, and has made no download.
C5_InvalidFileUrl ==
    (prompt # "" /\ file_url # "" /\ NotHttp(file_url)) =>
        /\ Finished
        /\ OneError(messages, "invalid_file_url")
        /\ Field(messages[1].json, "value") = [k |-> "str", s |-> file_url]
        /\ net = <<>>
        /\ ran = <<>>

\* the request for "not-a-url" with no base, absolutized to "/not-a-url",
\* ended with the structured error
C5_Witness ==
    /\ Finished
    /\ prompt # ""
    /\ file_url = "/not-a-url"
    /\ OneError(messages, "invalid_file_url")
    /\ net = <<>>

\* r has exactly one of the top-level keys pages and error
ExactlyOne(r) == r.k = "dict" /\ (HasPages(r) # HasError(r))

\* C6: every result the dispatch returns and every payload a request emits
\* has exactly one of the top-level keys pages and error, never both.
C6_PagesXorError ==
    /\ result # NoResult => ExactlyOne(result)
    /\ \A i \in 1..Len(messages) : IsJson(messages[i]) => ExactlyOne(messages[i].json)

\* the legacy-DOC pipeline returned its error, which carries no pages
C6_Witness ==
    /\ pc = "emit"
    /\ detected_type = "doc"
    /\ HasError(result)
    /\ ~HasPages(result)

\* the keys of dict r in order
KeysOf(r) == [i \in 1..Len(r.items) |-> r.items[i].key]

ExtractionMethods == {"direct_pdf_text", "direct_docx_text", "direct_doc_text", "ocr_api"}

\* r is {pages: [...], extraction_method: one of the four}
PayloadShape(r) ==
    /\ KeysOf(r) = <<"pages", "extraction_method">>
    /\ Field(r, "pages").k = "list"
    /\ Field(r, "extraction_method").k = "str"
    /\ Field(r, "extraction_method").s \in ExtractionMethods

Entries(r) == Field(r, "pages").v

\* the entry of a page that was read: {page: int, content: value}, the content
\* of a page of direct text extraction an object
ReadEntry(e, method) ==
    /\ KeysOf(e) = <<"page", "content">>
    /\ Field(e, "page").k = "int"
    /\ method # "ocr_api" => Field(e, "content").k = "dict"

\* the entry of a page whose OCR call failed: {page: int, error: string}
FailedEntry(e, method) ==
    /\ KeysOf(e) = <<"page", "error">>
    /\ Field(e, "page").k = "int"
    /\ Field(e, "error").k = "str"
    /\ method = "ocr_api"

\* C7 (as amended): every success payload is {pages, extraction_method} with
\* extraction_method one of direct_pdf_text, direct_docx_text,
\* direct_doc_text, ocr_api; every entry of pages has an integer page and
\* either a content field (an object for direct text extraction, the value
\* the OCR response parsed to for OCR) or, for a page whose OCR call failed,
\* a string error field and no content field.
C7_PayloadShape ==
    HasPages(result) =>
        /\ PayloadShape(result)
        /\ \A i \in 1..Len(Entries(result)) :
              LET e == Entries(result)[i]
                  method == Field(result, "extraction_method").s
              IN  e.k = "dict" /\ (ReadEntry(e, method) \/ FailedEntry(e, method))

\* C7 as stated: every entry of pages of a success payload has an integer
\* page and a content field that is an object.
C7_EveryEntryHasContent ==
    HasPages(result) =>
        /\ PayloadShape(result)
        /\ \A i \in 1..Len(Entries(result)) :
              LET e == Entries(result)[i] IN
              /\ e.k = "dict"
              /\ \E j \in 1..Len(e.items) : e.items[j].key = "page" /\ e.items[j].val.k = "int"
              /\ \E j \in 1..Len(e.items) :
                    e.items[j].key = "content" /\ e.items[j].val.k = "dict"

\* a page set with the entry of a failed OCR page was emitted
C7_Witness ==
    /\ Finished
    /\ HasPages(result)
    /\ Len(messages) = 2
    /\ \E i \in 1..Len(Entries(result)) : HasError(Entries(result)[i])

\* the tag of a supported extension
TagOf(ext) ==
    CASE ext \in {".png", ".jpg", ".jpeg", ".gif", ".webp", ".bmp"} -> "image"
      [] ext = ".pdf" -> "pdf"
      [] ext = ".docx" -> "docx"
      [] ext = ".doc" -> "doc"

Extensions == {".png", ".jpg", ".jpeg", ".gif", ".webp", ".bmp", ".pdf", ".docx", ".doc"}

\* the path of the URL ends with ext, whatever the case of its letters
PathEndsWith(url, ext) ==
    LET path == Lower(UrlPath(url)) IN
    Len(path) >= Len(ext) /\ SubSeq(path, Len(path) - Len(ext) + 1, Len(path)) = ext

Prefix(b, sig) == Len(b) >= Len(sig) /\ SubSeq(b, 1, Len(sig)) = sig

\* C8: once a body has been downloaded (the empty body too), if the path of
\* the URL ends, whatever the case, with a supported extension, the
\* detected type is the tag of that extension, whatever the bytes are.
C8_ExtensionWins ==
    file_bytes.some =>
        \A ext \in Extensions : PathEndsWith(file_url, ext) => detected_type = TagOf(ext)

\* a URL ending in .pdf whose body starts with the PNG signature was
\* detected as a PDF
C8_Witness ==
    /\ file_bytes.some
    /\ PathEndsWith(file_url, ".pdf")
    /\ Prefix(Body(file_bytes), <<137, 80, 78, 71>>)
    /\ detected_type = "pdf"

\* sig occurs in b entirely within its first n bytes
OccursWithin(b, sig, n) ==
    \E i \in 1..(n - Len(sig) + 1) :
        i + Len(sig) - 1 <= Len(b) /\ SubSeq(b, i, i + Len(sig) - 1) = sig

\* the classification by leading bytes
ByLeadingBytes(b) ==
    IF Prefix(b, <<37, 80, 68, 70, 45>>) THEN "pdf"
    ELSE IF Prefix(b, <<80, 75, 3, 4>>)
    THEN IF \/ OccursWithin(b, <<119, 111, 114, 100, 47>>, 4096)
            \/ OccursWithin(b, <<91, 67, 111, 110, 116, 101, 110, 116, 95, 84, 121, 112,
                                 101, 115, 93, 46, 120, 109, 108>>, 4096)
         THEN "docx" ELSE "unknown"
    ELSE IF Prefix(b, <<208, 207, 17, 224, 161, 177, 26, 225>>) THEN "doc"
    ELSE IF \/ Prefix(b, <<137, 80, 78, 71, 13, 10, 26, 10>>)
            \/ Prefix(b, <<255, 216, 255>>)
            \/ Prefix(b, <<71, 73, 70, 56>>)
            \/ Prefix(b, <<82, 73, 70, 70>>)
            \/ Prefix(b, <<66, 77>>)
         THEN "image"
    ELSE "unknown"

\* C9: once a body has been downloaded, if the path of the URL ends with no
\* supported extension, the detected type is the one its leading bytes
\* give: %PDF- a PDF; the ZIP signature a DOCX exactly when word/ or
\* [Content_Types].xml occurs within the first 4096 bytes; the compound-file
\* signature a DOC; the PNG, JPEG, GIF8, RIFF and BM prefixes an image;
\* anything else, the empty body too, unknown.
C9_LeadingBytes ==
    (file_bytes.some /\ \A ext \in Extensions : ~PathEndsWith(file_url, ext)) =>
        detected_type = ByLeadingBytes(Body(file_bytes))

\* a ZIP whose only word/ marker lies beyond the first 4096 bytes, at a URL
\* with no supported extension, was detected as unknown
C9_Witness ==
    /\ file_bytes.some
    /\ \A ext \in Extensions : ~PathEndsWith(file_url, ext)
    /\ file_bytes.head = <<80, 75, 3, 4>>
    /\ file_bytes.tail = <<119, 111, 114, 100, 47>>
    /\ Len(Body(file_bytes)) > 4096
    /\ detected_type = "unknown"

\* the dispatch has returned or is under way
Dispatched == result # NoResult \/ pc \notin {"idle", "download", "dispatch", "done"}

\* the steps that belong to the pipeline of a tag, its entry first
StepsOf(tag) ==
    CASE tag = "image" -> <<"_process_image_with_ocr", "_call_ocr_api">>
      [] tag = "pdf" -> <<"_process_pdf", "_extract_text_from_pdf",
                          "_process_scanned_pdf_with_ocr", "_convert_pdf_to_data_urls",
                          "_call_ocr_api">>
      [] tag = "docx" -> <<"_process_docx", "_extract_text_from_docx">>
      [] tag = "doc" -> <<"_process_doc", "_extract_text_from_doc",
                          "_process_doc_with_ocr_fallback">>
      [] OTHER -> <<>>

MethodsOf(tag) ==
    CASE tag = "image" -> {"ocr_api"}
      [] tag = "pdf" -> {"direct_pdf_text", "ocr_api"}
      [] tag = "docx" -> {"direct_docx_text"}
      [] tag = "doc" -> {"direct_doc_text"}
      [] OTHER -> {}

OcrCalls == {i \in 1..Len(net) : net[i].call = "OCR"}

InBatch == ocr.idx >= 1

\* the pages the OCR requests made so far were for, in the order made
OcrPagesRequested == [i \in 1..Cardinality(OcrCalls) |->
                         net[CHOOSE j \in OcrCalls :
                                Cardinality({k \in OcrCalls : k <= j}) = i].page]

\* entry e is the entry of page i for a call that gave response r
EntryOf(e, i, r) ==
    /\ e.k = "dict"
    /\ Field(e, "page") = [k |-> "int", n |-> i]
    /\ r.raises => KeysOf(e) = <<"page", "error">> /\ Field(e, "error") = r.returned
    /\ ~r.raises => KeysOf(e) = <<"page", "content">>

\* C11: an OCR batch of n images makes the requests of pages 1..n in order
\* whichever of them fail, and returns a page set with extraction method
\* ocr_api and exactly n entries numbered 1..n in order, the entry of a page
\* whose call failed carrying the error and no content, every other entry
\* carrying content and no error.
C11_OnePagePerImage ==
    InBatch =>
        /\ Len(ocr.pages_result) = Len(ocr.responses)
        /\ ocr.idx = Len(ocr.responses) + 1
        /\ ocr.idx <= Len(ocr.images) + 1
        /\ \A i \in 1..Len(ocr.pages_result) :
              EntryOf(ocr.pages_result[i], i, ocr.responses[i])
        /\ OcrPagesRequested =
              [i \in 1..(IF pc = "ocr" THEN ocr.idx - 1 ELSE Min(ocr.idx, Len(ocr.images)))
                 |-> i]
        /\ pc \in {"emit", "done"} =>
              /\ Len(ocr.responses) = Len(ocr.images)
              /\ result = [k |-> "dict",
                           items |-> <<[key |-> "pages",
                                        val |-> [k |-> "list", v |-> ocr.pages_result]],
                                       [key |-> "extraction_method",
                                        val |-> [k |-> "str", s |-> "ocr_api"]]>>]

\* a batch of three images of which only the second failed has ended
C11_Witness ==
    /\ InBatch
    /\ Finished
    /\ Len(ocr.images) = 3
    /\ ~ocr.responses[1].raises
    /\ ocr.responses[2].raises
    /\ ~ocr.responses[3].raises
    /\ HasPages(result)
    /\ Len(Entries(result)) = 3


\* the response of page i held a text (the empty text too)
ReturnedText(r) == ~r.raises /\ r.returned.k = "str"

\* the content of the entry of a page whose call returned text t, as the
\* claim states it
ContentOfText(t) ==
    IF Loads(t).ok THEN Loads(t).val
    ELSE [k |-> "dict", items |-> <<[key |-> "raw", val |-> [k |-> "str", s |-> t]]>>]

EmptyObject == [k |-> "dict", items |-> <<>>]

\* C12 (as amended): for every non-empty text returned by the OCR model the
\* page content is the parsed JSON value when the text parses as JSON and
\* otherwise exactly {raw: text}; a response that holds no text or the empty
\* text gives the empty object; in each case the page has an entry with
\* content and no error, and the batch goes on to its last page.
C12_ParsedOrRaw ==
    InBatch =>
        /\ \A i \in 1..Len(ocr.responses) :
              ~ocr.responses[i].raises =>
                 /\ KeysOf(ocr.pages_result[i]) = <<"page", "content">>
                 /\ Field(ocr.pages_result[i], "content") =
                       IF ReturnedText(ocr.responses[i]) /\ ocr.responses[i].returned.s # ""
                       THEN ContentOfText(ocr.responses[i].returned.s)
                       ELSE EmptyObject
        /\ pc \in {"emit", "done"} =>
              HasPages(result) /\ Entries(result) = ocr.pages_result
                 /\ Len(ocr.pages_result) = Len(ocr.images)

\* C12 as stated: for every text returned by the OCR model the page content
\* is the parsed JSON value when the text parses as JSON and otherwise
\* exactly {raw: text}.
C12_EveryTextParsedOrRaw ==
    InBatch =>
        \A i \in 1..Len(ocr.responses) :
            ReturnedText(ocr.responses[i]) =>
                /\ KeysOf(ocr.pages_result[i]) = <<"page", "content">>
                /\ Field(ocr.pages_result[i], "content") =
                      ContentOfText(ocr.responses[i].returned.s)

\* a batch has ended in which the first page returned a text that is not
\* JSON, wrapped as raw, and a later page was read
C12_Witness ==
    /\ InBatch
    /\ Finished
    /\ Len(ocr.images) >= 2
    /\ ocr.responses[1] = [raises |-> FALSE, returned |-> [k |-> "str", s |-> "Total: 5"]]
    /\ Field(Entries(result)[1], "content") =
          [k |-> "dict", items |-> <<[key |-> "raw", val |-> [k |-> "str", s |-> "Total: 5"]]>>]
    /\ ReturnedText(ocr.responses[2])


\* the result is a page set of a direct-text path (PDF, DOCX, legacy DOC)
DirectText(r) == HasPages(r) /\ Field(r, "extraction_method").s # "ocr_api"

\* C13: every page content of a direct-text path carries the four fields
\* raw_text, extracted_fields, word_count and character_count, the character
\* count being the length of its raw_text and the word count the number of
\* its whitespace-separated words, the pages whose text is empty included.
C13_FourFields ==
    DirectText(result) =>
        \A i \in 1..Len(Entries(result)) :
            LET c == Field(Entries(result)[i], "content") IN
            /\ KeysOf(c) = <<"raw_text", "extracted_fields", "word_count", "character_count">>
            /\ Field(c, "character_count") = [k |-> "int", n |-> Len(Field(c, "raw_text").s)]
            /\ Field(c, "word_count") = [k |-> "int", n |-> Len(Split(Field(c, "raw_text").s))]


\* the PDF read by a tool that has neither PyMuPDF nor PyPDF2
NoPdfLibrary(d) == d.kind = "pdf" /\ ~d.HAS_PYMUPDF /\ ~d.HAS_PYPDF2

LibraryMissing(r) ==
    HasError(r) /\ Field(r, "error") = [k |-> "str", s |-> "pdf_library_missing"]

C19_Step ==
    \* with no library the PDF counts as scanned
    /\ (pc = "_process_pdf" /\ NoPdfLibrary(doc')) =>
          /\ pc' = "_process_scanned_pdf_with_ocr"
          /\ result' = NoResult
          /\ ran' = Append(ran, "_process_scanned_pdf_with_ocr")
    \* and is rendered, for the OCR batch or the pdf_convert_failed error
    /\ (pc = "_process_scanned_pdf_with_ocr" /\ NoPdfLibrary(doc)) =>
          \/ pc' = "_call_ocr_api" /\ ocr'.images # <<>> /\ result' = NoResult
          \/ /\ pc' = "emit"
             /\ HasError(result')
             /\ Field(result', "error") = [k |-> "str", s |-> "pdf_convert_failed"]
    \* no step of a request gives the pdf_library_missing error
    /\ ~LibraryMissing(result')

\* C19 (as amended): when no PDF text-extraction library is available the
\* PDF pipeline takes the PDF for scanned and renders it for OCR, giving the
\* pdf_convert_failed error or the result of the OCR batch; the pipeline
\* never gives the pdf_library_missing error.
C19_TakenForScanned == [][C19_Step]_vars

\* C19 as stated: when no PDF text-extraction library is available the PDF
\* pipeline gives the pdf_library_missing error.
C19_LibraryMissing ==
    [][(pc = "_process_pdf" /\ NoPdfLibrary(doc')) =>
           pc' = "emit" /\ LibraryMissing(result')]_vars

\* a PDF with text was taken for scanned by a tool with no library
C19_Witness ==
    /\ pc = "_process_scanned_pdf_with_ocr"
    /\ NoPdfLibrary(doc)
    /\ TotalTextLength(doc.texts, Len(doc.texts)) >= 50

\* the text of the PDF in doc was extracted directly: the PDF pipeline
\* found it not scanned and has returned
Extracted == doc.kind = "pdf" /\ pc \in {"emit", "done"}

\* the library the extraction reads the PDF with raises on opening it or on
\* one of its pages
ExtractionThrows(d) ==
    \E k \in 0..Len(d.texts) :
        k = IF d.HAS_PYMUPDF THEN d.fitz_raises_at ELSE d.pypdf2_raises_at

\* C20: the direct text extraction of a PDF of n pages returns a page set
\* with extraction method direct_pdf_text and exactly n entries numbered
\* 1..n in order, or, when the extraction raises on a page, the
\* pdf_text_extraction_failed error with no page at all; the message that
\* carries the result when the request ends carries that same result.
C20_AllPagesOrError ==
    Extracted =>
        /\ IF ExtractionThrows(doc)
           THEN /\ KeysOf(result) = <<"error", "detail">>
                /\ Field(result, "error") = [k |-> "str", s |-> "pdf_text_extraction_failed"]
           ELSE /\ KeysOf(result) = <<"pages", "extraction_method">>
                /\ Field(result, "extraction_method") = [k |-> "str", s |-> "direct_pdf_text"]
                /\ Len(Entries(result)) = Len(doc.texts)
                /\ \A i \in 1..Len(doc.texts) :
                      /\ KeysOf(Entries(result)[i]) = <<"page", "content">>
                      /\ Field(Entries(result)[i], "page") = [k |-> "int", n |-> i]
        /\ Finished =>
              /\ messages[Len(messages)] = [type |-> "json", text |-> "", json |-> result]
              /\ \A i \in 1..Len(messages) : IsJson(messages[i]) => messages[i].json = result

\* the extraction of a PDF of three pages raised on the second page, and the
\* request ended with the error and no page
C20_Witness ==
    /\ Extracted
    /\ Finished
    /\ Len(doc.texts) = 3
    /\ doc.HAS_PYMUPDF
    /\ doc.fitz_raises_at = 2
    /\ HasError(result)
    /\ ~HasPages(result)
    /\ Len(messages) = 1

\* the text of the DOCX in doc was extracted: python-docx is installed and
\* read the file, and the DOCX pipeline has returned
DocxExtracted ==
    doc.kind = "docx" /\ doc.HAS_PYTHON_DOCX /\ ~doc.raises /\ pc \in {"emit", "done"}

\* the trimmed texts that are not empty, in order
Trimmed(texts) ==
    SelectSeq([i \in 1..Len(texts) |-> Strip(texts[i])], LAMBDA t : t # "")

RECURSIVE Lines(_)
\* the texts, one per line
Lines(texts) ==
    IF Len(texts) = 0 THEN ""
    ELSE IF Len(texts) = 1 THEN texts[1]
    ELSE Lines(SubSeq(texts, 1, Len(texts) - 1)) \o "\n" \o texts[Len(texts)]

\* the texts of the cells of the tables, in table, row, cell order
CellsOf(tables) ==
    Flatten([t \in 1..Len(tables) |-> Flatten(tables[t])])

\* C21: the direct extraction of a DOCX gives exactly one page, numbered 1,
\* with extraction method direct_docx_text, whose text is the trimmed
\* non-empty paragraph texts in order followed by the trimmed non-empty cell
\* texts in table, row, cell order, joined by single newlines; the
\* paragraphs A, B with no table give "A\nB".
C21_DocxOnePage ==
    DocxExtracted =>
        /\ KeysOf(result) = <<"pages", "extraction_method">>
        /\ Field(result, "extraction_method") = [k |-> "str", s |-> "direct_docx_text"]
        /\ Len(Entries(result)) = 1
        /\ Field(Entries(result)[1], "page") = [k |-> "int", n |-> 1]
        /\ Field(Field(Entries(result)[1], "content"), "raw_text") =
              [k |-> "str", s |-> Lines(Trimmed(doc.paragraphs) \o Trimmed(CellsOf(doc.tables)))]
        /\ (doc.paragraphs = <<"A", "B">> /\ doc.tables = <<>>) =>
              Field(Field(Entries(result)[1], "content"), "raw_text") =
                 [k |-> "str", s |-> "A\nB"]

\* a DOCX with blank paragraphs, a blank cell and two tables was extracted
C21_Witness ==
    /\ DocxExtracted
    /\ Finished
    /\ doc.paragraphs = <<" ", " Mail a@b.com ", "">>
    /\ Len(doc.tables) = 2
    /\ Field(Field(Entries(result)[1], "content"), "raw_text") =
          [k |-> "str", s |-> "Mail a@b.com\nc1\nc2\nd1"]

\* C22: on every exit path of the extraction of a legacy DOC (success,
\* textract raising, writing the scratch file raising) the scratch file the
\* call created is deleted when the call returns or raises, so that no
\* sequence of requests leaves a scratch file on disk.
C22_NoScratchFileLeft == tmp_files = {}

\* the legacy-DOC pipeline has returned for the DOC in doc
DocProcessed == doc.kind = "doc" /\ pc \in {"emit", "done"}

\* textract is not installed, or it is and the extraction raised
NoConversion(d) ==
    ~d.HAS_TEXTRACT \/ d.textract_raises \/ d.scratch \in {"create_raises", "write_raises"}

\* step is among the steps that ran
Ran(step) == \E i \in 1..Len(ran) : ran[i] = step

C24_AllPagesOrNone ==
    (doc.kind = "rendered" /\ ocr.images # <<>>) =>
        ocr.images = [i \in 1..doc.pages |-> DataUrl("image/png", "page" \o IntToStr(i))]

\* the rasterizer returned no image for the PDF in doc: pdfium raised before
\* it had rendered a page to an image
NothingRendered ==
    /\ doc.kind = "rendered"
    /\ \A i \in 1..doc.pages : i >= doc.raises_at \/ i = doc.not_image

\* C25: when the rasterizer returns the empty sequence for a scanned PDF the
\* request ends with the pdf_convert_failed error, as its one message, and
\* makes no OCR call; no page set of the OCR path has zero pages.
C25_EmptyIsConvertFailed ==
    /\ NothingRendered =>
          /\ pc \in {"emit", "done"}
          /\ KeysOf(result) = <<"error", "detail">>
          /\ Field(result, "error") = [k |-> "str", s |-> "pdf_convert_failed"]
          /\ OcrCalls = {}
          /\ ocr = NoOcr
          /\ ~Ran("_call_ocr_api")
          /\ Finished => OneError(messages, "pdf_convert_failed")
    /\ (HasPages(result) /\ Field(result, "extraction_method").s = "ocr_api") =>
          Entries(result) # <<>>

\* a request for a scanned PDF of two pages whose rendering raised on the
\* first page has ended
C25_Witness ==
    /\ NothingRendered
    /\ Finished
    /\ doc.pages = 2
    /\ doc.raises_at = 1
    /\ Len(messages) = 1
    /\ Len(net) = 1

\* the OCR requests sent that have neither returned nor raised yet
InFlight == Cardinality(OcrCalls) - Len(ocr.responses)

\* C26: within a request the OCR calls are made one after the other and
\* none is made again: the request of a page is sent only when the request
\* of every page before it has returned or raised, at most one request is
\* in flight at any time, and when the batch ends exactly one request was
\* sent per image, whether it returned or raised.
C26_OneRequestAtATime ==
    /\ ~InBatch => OcrCalls = {}
    /\ InBatch =>
          /\ InFlight \in {0, 1}
          /\ InFlight = 1 <=> pc = "ocr_wait"
          /\ \A i \in OcrCalls :
                /\ net[i].page \in 1..Len(ocr.images)
                /\ Len(ocr.responses) >= net[i].page - 1
                /\ \A j \in OcrCalls : i < j => net[i].page < net[j].page
          /\ pc \in {"emit", "done"} =>
                /\ Cardinality(OcrCalls) = Len(ocr.images)
                /\ \A p \in 1..Len(ocr.images) :
                      Cardinality({i \in OcrCalls : net[i].page = p}) = 1

\* the request of page 2 is in flight after the request of page 1 raised
C26_Witness ==
    /\ InBatch
    /\ pc = "ocr_wait"
    /\ ocr.idx = 2
    /\ Len(ocr.responses) = 1
    /\ ocr.responses[1].raises
    /\ Cardinality(OcrCalls) = 2

\* every request of the batch has raised
AllPagesFailed ==
    /\ InBatch
    /\ Len(ocr.responses) = Len(ocr.images)
    /\ \A i \in 1..Len(ocr.responses) : ocr.responses[i].raises

\* C27: an OCR batch in which the request of every page fails still gives a
\* page set with extraction method ocr_api and one error entry per page,
\* which the request emits as two messages, a text message and a structured
\* message; the failures of pages never make the result of a batch a
\* top-level error.
C27_FailedPagesAreNoError ==
    /\ (InBatch /\ pc \in {"emit", "done"}) => ~HasError(result) /\ HasPages(result)
    /\ AllPagesFailed =>
          /\ pc \in {"emit", "done"}
          /\ Field(result, "extraction_method") = [k |-> "str", s |-> "ocr_api"]
          /\ Len(Entries(result)) = Len(ocr.images)
          /\ \A i \in 1..Len(ocr.images) :
                /\ KeysOf(Entries(result)[i]) = <<"page", "error">>
                /\ Field(Entries(result)[i], "page") = [k |-> "int", n |-> i]
          /\ Finished =>
                /\ Len(messages) = 2
                /\ IsText(messages[1])
                /\ messages[2] = [type |-> "json", text |-> "", json |-> result]

\* a request whose batch of two pages failed on both has ended
C27_Witness ==
    /\ AllPagesFailed
    /\ Finished
    /\ Len(ocr.images) = 2
    /\ ocr.api_key = ""
    /\ Len(messages) = 2

\* result is the pdf_text_extraction_failed error for this exception
ExtractionFailed(r, exception) ==
    /\ KeysOf(r) = <<"error", "detail">>
    /\ Field(r, "error") = [k |-> "str", s |-> "pdf_text_extraction_failed"]
    /\ Field(r, "detail") = [k |-> "str", s |-> exception]

\* C29: the direct text extraction of a PDF reads it with the secondary
\* library only when the primary library is not installed: when the primary
\* is installed and raises, the result is the pdf_text_extraction_failed
\* error of that exception, whether or not the secondary is installed and
\* reads the PDF, also when it is the secondary that found the PDF to have
\* text after the primary raised in the detector.
C29_NoFallbackInExtraction ==
    Extracted =>
        IF doc.HAS_PYMUPDF
        THEN IF doc.fitz_raises_at <= Len(doc.texts)
             THEN ExtractionFailed(result, "fitz error")
             ELSE HasPages(result) /\ ~HasError(result)
        ELSE /\ doc.HAS_PYPDF2
             /\ IF doc.pypdf2_raises_at <= Len(doc.texts)
                THEN ExtractionFailed(result, "PyPDF2 error")
                ELSE HasPages(result) /\ ~HasError(result)

\* the primary library raised on opening a PDF that the secondary library
\* reads and found to have text, and the request ended with the error
C29_Witness ==
    /\ Extracted
    /\ Finished
    /\ doc.HAS_PYMUPDF
    /\ doc.fitz_raises_at = 0
    /\ doc.HAS_PYPDF2
    /\ doc.pypdf2_raises_at > Len(doc.texts)
    /\ OneError(messages, "pdf_text_extraction_failed")

\* _call_ocr_api was called and raised before its loop began
BatchAborted == ocr.caller # "none" /\ ~InBatch /\ pc \in {"emit", "done"}

\* the error kind of the pipeline that called _call_ocr_api
OcrFailedKind == IF detected_type = "image" THEN "image_ocr_failed" ELSE "scanned_pdf_ocr_failed"

\* C30: a failure of the OCR pipeline before the loop over the pages begins
\* (resolving the credentials, building the client) aborts the batch: no
\* page request is made, no page set is produced, and the request ends with
\* one top-level error, image_ocr_failed for an image and
\* scanned_pdf_ocr_failed for a scanned PDF; a result of one of these kinds
\* comes from no batch whose loop began.
C30_AbortBeforeLoop ==
    /\ BatchAborted =>
          /\ detected_type \in {"image", "pdf"}
          /\ OcrCalls = {}
          /\ ocr.pages_result = <<>>
          /\ KeysOf(result) = <<"error", "detail">>
          /\ Field(result, "error") = [k |-> "str", s |-> OcrFailedKind]
          /\ Finished => OneError(messages, OcrFailedKind)
    /\ (HasError(result)
          /\ Field(result, "error").s \in {"image_ocr_failed", "scanned_pdf_ocr_failed"}) =>
          BatchAborted

\* a request for a scanned PDF of two rendered pages whose client could not
\* be built has ended
C30_Witness ==
    /\ BatchAborted
    /\ Finished
    /\ detected_type = "pdf"
    /\ Len(ocr.images) = 2
    /\ OneError(messages, "scanned_pdf_ocr_failed")
    /\ Len(net) = 1

(***************************************************************************)
(* The functions of the tool applied on their own: the arguments are drawn *)
(* from bounded sets into doc, the call stores what it returns in result.  *)
(***************************************************************************)
FieldTexts ==
    {"", "no fields here", "Contact: a@b.com, Phone: 555-0123", "Call 555-012-3456 a@b.com",
     "a@b.com c@d.org", "Due 1/2/2024: pay $5 USD\n", "555-012-3456 (555)765-4321",
     "2024-01-02 or 3/4/25", "1,000.50 EUR and $ 20"}

FieldPrompts ==
    {"extract email and phone", "list EMAILS", "Dates and Amounts", "extract text", "Phones",
     "date"}

FieldsArgs == {[kind |-> "fields", text |-> t, prompt |-> p] : t \in FieldTexts, p \in FieldPrompts}

\* _extract_basic_fields(text, prompt) is called and returns
CallExtractBasicFields ==
    /\ pc = "call"
    /\ doc.kind = "fields"
    /\ result' = _extract_basic_fields(doc.text, doc.prompt)
    /\ pc' = "returned"
    /\ UNCHANGED <<prompt, file_url, file_bytes, detected_type, doc, ocr, messages, net, ran,
                   tmp_files>>

Returned(kind) == pc = "returned" /\ doc.kind = kind

\* field number f is named in the prompt: its name or its plural occurs in
\* it, whatever the case
Named(f, p) ==
    \E i \in 1..Len(p) :
        \E n \in {field_names[f], field_names[f] \o "s"} :
            i + Len(n) - 1 <= Len(p) /\ Lower(SubSeq(p, i, i + Len(n) - 1)) = n

\* the strings the pattern of field f matches in text, in order
MatchedStrings(f, text) ==
    FindAllFrom(field_patterns[f].node, 0, text, 1)

\* C14: extractFields gives a field a value only if the name of the field or
\* its plural occurs in the prompt, whatever the case, and then: the single
\* matched string when the pattern matches once, the sequence of the matched
\* strings when it matches several times, no key when it does not match.
C14_MatchedStrings ==
    Returned("fields") =>
        \A f \in 1..Len(field_names) :
            LET name == field_names[f]
                matched == MatchedStrings(f, doc.text)
            IN  IF ~Named(f, doc.prompt) \/ matched = <<>>
                THEN ~HasKey(result, name)
                ELSE /\ HasKey(result, name)
                     /\ Get(result, name) = IF Len(matched) = 1 THEN matched[1]
                                            ELSE [k |-> "list", v |-> matched]

C15_Example ==
    /\ Returned("fields")
    /\ doc.prompt = "extract email and phone"
    /\ doc.text = "Contact: a@b.com, Phone: 555-0123"

UrlArgs ==
    {[kind |-> "url", url |-> u, base_override |-> b, file_host_base |-> h] :
        u \in {"", "https://h/a.pdf", "http://h/b.PNG", "HTTP://h/a.pdf", "ftp://h/a.pdf",
               "not-a-url", "/files/g.webp", "\"files/g.gif\"", "'/files/q.png'"},
        b \in {"", "https://files.example", "http://localhost"},
        h \in {PyNone, PyStr("  "), PyStr("https://host.example//")}}

\* _absolutize_url(url, base_override) is called and returns
CallAbsolutizeUrl ==
    /\ pc = "call"
    /\ doc.kind = "url"
    /\ result' = PyStr(_absolutize_url(doc.url, doc.base_override, doc.file_host_base))
    /\ pc' = "returned"
    /\ UNCHANGED <<prompt, file_url, file_bytes, detected_type, doc, ocr, messages, net, ran,
                   tmp_files>>

\* the first available base of a call, in the order explicit override, file
\* host base; the empty string when there is none
FirstBase(args) ==
    IF args.base_override # "" THEN args.base_override
    ELSE IF args.file_host_base.k = "str" THEN Strip(args.file_host_base.s)
    ELSE ""

\* url without the quotes around it, and with a leading slash
Normalised(url) ==
    LET q == Ch(url, 1)
        inner == IF q \in {"\"", "'"} /\ Ch(url, Len(url)) = q
                 THEN SubSeq(url, 2, Len(url) - 1) ELSE url
    IN  IF Len(inner) >= 1 /\ Ch(inner, 1) = "/" THEN inner ELSE "/" \o inner

\* base without the slashes at its end
NoTrailingSlash(base) ==
    LET last == CHOOSE n \in 0..Len(base) :
                    /\ n = 0 \/ Ch(base, n) # "/"
                    /\ \A m \in (n + 1)..Len(base) : Ch(base, m) = "/"
    IN  SubSeq(base, 1, last)

Relative(url) == url # "" /\ NotHttp(url)

\* C17 (as amended): a URL that starts with http:// or https:// is returned
\* unchanged; a relative URL is stripped of the quotes around it, given a
\* leading slash, and put after the first available base in the order
\* explicit override, file host base; with no base it is returned so
\* normalised, without a base, and then fails the validation of the URL.
C17_Absolutize ==
    Returned("url") =>
        /\ ~Relative(doc.url) => result = [k |-> "str", s |-> doc.url]
        /\ Relative(doc.url) =>
              /\ result = [k |-> "str",
                           s |-> NoTrailingSlash(FirstBase(doc)) \o Normalised(doc.url)]
              /\ FirstBase(doc) = "" =>
                    OneError(Validate("extract text", result.s), "invalid_file_url")

\* C17 as stated: with no base available a relative URL is left as it is,
\* the returned string equal to the input string.
C17_LeftAsIs ==
    Returned("url") /\ Relative(doc.url) /\ FirstBase(doc) = "" =>
        result = [k |-> "str", s |-> doc.url]

\* a relative URL was absolutized against the explicit base, a file host
\* base being stored too
C17_Witness ==
    /\ Returned("url")
    /\ doc.url = "not-a-url"
    /\ doc.base_override = "https://files.example"
    /\ doc.file_host_base = [k |-> "str", s |-> "https://host.example//"]
    /\ result = [k |-> "str", s |-> "https://files.example/not-a-url"]

MaxScanPages == 4

\* the PDFs _is_pdf_scanned is called on, as PdfDocs but longer
ScanArgs ==
    {d \in [kind : {"scan"}, HAS_PYMUPDF : BOOLEAN, HAS_PYPDF2 : BOOLEAN,
            texts : UNION {[1..n -> PdfTexts] : n \in 1..MaxScanPages},
            fitz_raises_at : 0..(MaxScanPages + 1),
            pypdf2_raises_at : 0..(MaxScanPages + 1)] :
        /\ d.fitz_raises_at <= Len(d.texts) + 1
        /\ d.pypdf2_raises_at <= Len(d.texts) + 1
        /\ ~d.HAS_PYMUPDF => d.fitz_raises_at = Len(d.texts) + 1
        /\ ~d.HAS_PYPDF2 => d.pypdf2_raises_at = Len(d.texts) + 1}

\* _is_pdf_scanned(file_bytes) is called and returns
CallIsPdfScanned ==
    /\ pc = "call"
    /\ doc.kind = "scan"
    /\ result' = PyBool(_is_pdf_scanned(doc))
    /\ pc' = "returned"
    /\ UNCHANGED <<prompt, file_url, file_bytes, detected_type, doc, ocr, messages, net, ran,
                   tmp_files>>

\* the length of the trimmed text of page i, 0 when there is no page i
TrimmedLength(texts, i) == IF i <= Len(texts) THEN Len(Strip(texts[i])) ELSE 0

FirstThreePages(texts) ==
    TrimmedLength(texts, 1) + TrimmedLength(texts, 2) + TrimmedLength(texts, 3)

\* a library is installed and reads the first three pages without raising
\* (raises_at 0: it raises on opening the file)
Measures(has, raises_at, texts) ==
    has /\ \A i \in 0..3 : i <= Len(texts) => raises_at # i

\* C18: isScanned is true if and only if the trimmed texts of the first
\* three pages have fewer than 50 characters in all (false at exactly 50),
\* as measured with the primary library, or with the secondary one when the
\* primary is not installed or raises; it is true when no library measures;
\* the text of the pages after the third does not change the result.
C18_IsScanned ==
    Returned("scan") =>
        LET primary == Measures(doc.HAS_PYMUPDF, doc.fitz_raises_at, doc.texts)
            secondary == Measures(doc.HAS_PYPDF2, doc.pypdf2_raises_at, doc.texts)
        IN  result = [k |-> "bool",
                      b |-> IF primary \/ secondary THEN FirstThreePages(doc.texts) < 50
                            ELSE TRUE]

\* a PDF of four pages with 49 characters in its first three pages and text
\* on its fourth, measured with the secondary library, was found scanned
C18_Witness ==
    /\ Returned("scan")
    /\ Len(doc.texts) = 4
    /\ FirstThreePages(doc.texts) = 49
    /\ TrimmedLength(doc.texts, 4) > 0
    /\ doc.HAS_PYMUPDF /\ doc.fitz_raises_at = 2
    /\ doc.HAS_PYPDF2 /\ doc.pypdf2_raises_at = 4
    /\ result = [k |-> "bool", b |-> TRUE]

\* the PDFs _process_pdf is called on
RouteArgs == {[d EXCEPT !.kind = "route"] : d \in ScanArgs}

\* _process_pdf(file_bytes, prompt, tool_parameters) is called, up to the
\* return of the direct extraction or the call of the scanned path
CallProcessPdf ==
    /\ pc = "call"
    /\ doc.kind = "route"
    /\ IF _is_pdf_scanned(doc)
       THEN /\ ran' = <<"_process_scanned_pdf_with_ocr">>
            /\ result' = result
       ELSE /\ ran' = <<"_extract_text_from_pdf">>
            /\ result' = _extract_text_from_pdf(doc, "extract text")
    /\ pc' = "returned"
    /\ UNCHANGED <<prompt, file_url, file_bytes, detected_type, doc, ocr, messages, net,
                   tmp_files>>

\* a library is installed and raises on the PDF: on opening it or on page k
Throws(has, raises_at, texts) == has /\ raises_at <= Len(texts)

\* a library is installed and raises before it has read the first three
\* pages of the PDF
ThrowsInDetector(has, raises_at, texts) ==
    has /\ raises_at <= Len(texts) /\ raises_at <= 3

\* C28 (as amended): isScanned returns true when no library is installed
\* and whenever every installed library raises on opening the PDF or on one
\* of its first three pages; such a PDF is routed to the scanned path and
\* never to the direct text extraction.
C28_ScannedWhenAllThrowEarly ==
    LET primary == ThrowsInDetector(doc.HAS_PYMUPDF, doc.fitz_raises_at, doc.texts)
        secondary == ThrowsInDetector(doc.HAS_PYPDF2, doc.pypdf2_raises_at, doc.texts)
        all == (doc.HAS_PYMUPDF => primary) /\ (doc.HAS_PYPDF2 => secondary)
    IN  /\ (Returned("scan") /\ all) => result = [k |-> "bool", b |-> TRUE]
        /\ (Returned("route") /\ all) =>
              ran = <<"_process_scanned_pdf_with_ocr">> /\ result = NoResult

\* C28 as stated: isScanned returns true whenever every installed library
\* raises on the PDF, and a PDF on which every installed library raises is
\* routed to the scanned path and never to the direct text extraction.
C28_ScannedWhenAllThrow ==
    LET primary == Throws(doc.HAS_PYMUPDF, doc.fitz_raises_at, doc.texts)
        secondary == Throws(doc.HAS_PYPDF2, doc.pypdf2_raises_at, doc.texts)
        all == (doc.HAS_PYMUPDF => primary) /\ (doc.HAS_PYPDF2 => secondary)
    IN  /\ (Returned("scan") /\ all) => result = [k |-> "bool", b |-> TRUE]
        /\ (Returned("route") /\ all) =>
              ran = <<"_process_scanned_pdf_with_ocr">> /\ result = NoResult

\* a PDF with text on which both libraries raise in the detector was routed
\* to the scanned path
C28_Witness ==
    /\ Returned("route")
    /\ doc.HAS_PYMUPDF /\ doc.fitz_raises_at = 0
    /\ doc.HAS_PYPDF2 /\ doc.pypdf2_raises_at = 2
    /\ FirstThreePages(doc.texts) >= 50
    /\ ran = <<"_process_scanned_pdf_with_ocr">>

PureInit ==
    /\ pc = "call"
    /\ doc \in FieldsArgs \cup UrlArgs \cup ScanArgs \cup RouteArgs
    /\ prompt = ""
    /\ file_url = ""
    /\ file_bytes = NoBytes
    /\ detected_type = "unknown"
    /\ ocr = NoOcr
    /\ result = NoResult
    /\ messages = <<>>
    /\ net = <<>>
    /\ ran = <<>>
    /\ tmp_files = {}

PureNext ==
    \/ CallExtractBasicFields
    \/ CallAbsolutizeUrl
    \/ CallIsPdfScanned
    \/ CallProcessPdf

PureSpec == PureInit /\ [][PureNext]_vars


\* a source supplies a value: it is not absent and not empty
Supplies(v) == v.k = "str" /\ v.s # ""

\* the value of the first source, in the order override, stored, default,
\* that supplies one, trimmed as the client gets it
FirstSupplied(override, stored, default) ==
    Strip(IF Supplies(override) THEN override.s
          ELSE IF Supplies(stored) THEN stored.s
          ELSE default)

\* C16: for each OCR call the api_key and the model are each the value of
\* the first source, in the order per-call override, stored credential,
\* default (qwen-vl-ocr for the model, the empty key), that supplies a
\* non-empty value, so that an absent or empty override gives the stored
\* credential when one is stored.
C16_FirstNonEmptySource ==
    InBatch =>
        /\ ocr.api_key = FirstSupplied(ocr.credentials.override_key,
                                       ocr.credentials.stored_key, "")
        /\ ocr.model = FirstSupplied(ocr.credentials.override_model,
                                     ocr.credentials.stored_model, "qwen-vl-ocr")

=============================================================================
